---- MODULE Spec2Model ----
(***************************************************************************)
(* Conversation-flow engine of the customer-support chatbot: question     *)
(* trees, answer validation and normalisation, resolution matching, the   *)
(* in-memory session store and the /api/chat request handlers.            *)
(*                                                                         *)
(* Strings are TLA+ strings; a character is a string of length one.       *)
(* JavaScript `undefined` is the value Undefined.                         *)
(***************************************************************************)
EXTENDS Integers, Sequences, FiniteSets, TLC

Undefined == "<undefined>"

(***************************************************************************)
(* String primitives of the JavaScript runtime used by the services.      *)
(***************************************************************************)
CharAt(s, i) == SubSeq(s, i, i)

UpperLetters == "ABCDEFGHIJKLMNOPQRSTUVWXYZ"
LowerLetters == "abcdefghijklmnopqrstuvwxyz"
Digits == "0123456789"

InString(c, alphabet) == \E i \in 1..Len(alphabet) : CharAt(alphabet, i) = c
IndexIn(c, alphabet) == CHOOSE i \in 1..Len(alphabet) : CharAt(alphabet, i) = c

IsWhitespace(c) == c \in {" ", "\t", "\n", "\r"}
IsDigit(c) == InString(c, Digits)

LowerChar(c) == IF InString(c, UpperLetters) THEN CharAt(LowerLetters, IndexIn(c, UpperLetters)) ELSE c
UpperChar(c) == IF InString(c, LowerLetters) THEN CharAt(UpperLetters, IndexIn(c, LowerLetters)) ELSE c

RECURSIVE ToLowerCase(_)
ToLowerCase(s) ==
  IF s = "" THEN ""
  ELSE IF Len(s) = 1 THEN LowerChar(CharAt(s, 1))
  ELSE ToLowerCase(SubSeq(s, 1, Len(s) \div 2)) \o ToLowerCase(SubSeq(s, Len(s) \div 2 + 1, Len(s)))

RECURSIVE ToUpperCase(_)
ToUpperCase(s) ==
  IF s = "" THEN ""
  ELSE IF Len(s) = 1 THEN UpperChar(CharAt(s, 1))
  ELSE ToUpperCase(SubSeq(s, 1, Len(s) \div 2)) \o ToUpperCase(SubSeq(s, Len(s) \div 2 + 1, Len(s)))

RECURSIVE TrimStart(_)
TrimStart(s) == IF s # "" /\ IsWhitespace(CharAt(s, 1)) THEN TrimStart(SubSeq(s, 2, Len(s))) ELSE s

RECURSIVE TrimEnd(_)
TrimEnd(s) == IF s # "" /\ IsWhitespace(CharAt(s, Len(s))) THEN TrimEnd(SubSeq(s, 1, Len(s) - 1)) ELSE s

Trim(s) == TrimEnd(TrimStart(s))

\* String.prototype.includes
Includes(s, sub) == \E i \in 1..(Len(s) - Len(sub) + 1) : SubSeq(s, i, i + Len(sub) - 1) = sub

AllDigits(s) == \A i \in 1..Len(s) : IsDigit(CharAt(s, i))

\* [^\s@]+ : non-empty, no whitespace, no "@"
NoSpaceNoAt(s) == s # "" /\ \A i \in 1..Len(s) : ~IsWhitespace(CharAt(s, i)) /\ CharAt(s, i) # "@"

ORDER_ID_PATTERN == "^ORD-[0-9]{5}$"
EMAIL_PATTERN == "^[^\\s@]+@[^\\s@]+\\.[^\\s@]+$"

\* new RegExp(pattern).test(s) for the two patterns the question trees declare
RegExpTest(pattern, s) ==
  CASE pattern = ORDER_ID_PATTERN ->
         Len(s) = 9 /\ SubSeq(s, 1, 4) = "ORD-" /\ AllDigits(SubSeq(s, 5, 9))
    [] pattern = EMAIL_PATTERN ->
         \E i \in 2..Len(s) : \E j \in (i + 2)..(Len(s) - 1) :
            /\ CharAt(s, i) = "@"
            /\ CharAt(s, j) = "."
            /\ NoSpaceNoAt(SubSeq(s, 1, i - 1))
            /\ NoSpaceNoAt(SubSeq(s, i + 1, j - 1))
            /\ NoSpaceNoAt(SubSeq(s, j + 1, Len(s)))

(***************************************************************************)
(* Types (enumerations of the type definitions).                          *)
(***************************************************************************)
IssueCategory ==
  {"ORDER_STATUS", "DELIVERY_PROBLEM", "PAYMENT_ISSUE", "REFUND_REQUEST", "PRODUCT_DEFECT",
   "ACCOUNT_ACCESS", "BILLING_INQUIRY", "CANCELLATION", "OTHER"}

QuestionType == {"SINGLE_CHOICE", "MULTIPLE_CHOICE", "TEXT_INPUT", "YES_NO", "DATE", "ORDER_ID"}

ResolutionType ==
  {"SELF_SERVICE", "AUTOMATED_ACTION", "ESCALATE_AGENT", "ESCALATE_SPECIALIST", "INFORMATION_PROVIDED"}

ConversationMode == {"SYSTEM_INITIATED", "USER_INITIATED"}

(***************************************************************************)
(* Question trees.  A Question is a record; an absent `options` or        *)
(* `validationRules` is the empty sequence, an absent nextQuestionMap has *)
(* hasNextQuestionMap = FALSE.  The prompt text plays no part in the flow *)
(* and is left out.                                                       *)
(***************************************************************************)
NoMap == [a \in {} |-> ""]

Question(id, type, options, hasMap, map, rules) ==
  [id |-> id, type |-> type, options |-> options, hasNextQuestionMap |-> hasMap,
   nextQuestionMap |-> map, validationRules |-> rules]

\* ValidationRule; `value` is a string (strValue), a number (numValue) or absent
RuleRequired(msg) == [type |-> "required", valueType |-> "undefined", strValue |-> "", numValue |-> 0, errorMessage |-> msg]
RulePattern(p, msg) == [type |-> "pattern", valueType |-> "string", strValue |-> p, numValue |-> 0, errorMessage |-> msg]
RuleMinLength(n, msg) == [type |-> "minLength", valueType |-> "number", strValue |-> "", numValue |-> n, errorMessage |-> msg]

YesNoMap(yes, no) == ("yes" :> yes) @@ ("no" :> no)

ORDER_STATUS_TREE ==
  [category |-> "ORDER_STATUS", rootQuestionId |-> "order_status_1",
   questions |->
     ("order_status_1" :> Question("order_status_1", "YES_NO", <<>>, TRUE,
                                   YesNoMap("order_status_2", "order_status_3"), <<>>))
  @@ ("order_status_2" :> Question("order_status_2", "ORDER_ID", <<>>, FALSE, NoMap,
                                   <<RuleRequired("Order number is required"),
                                     RulePattern(ORDER_ID_PATTERN, "Order number must be in format ORD-XXXXX")>>))
  @@ ("order_status_3" :> Question("order_status_3", "TEXT_INPUT", <<>>, FALSE, NoMap,
                                   <<RuleRequired("Email address is required"),
                                     RulePattern(EMAIL_PATTERN, "Please provide a valid email address")>>))]

DELIVERY_PROBLEM_TREE ==
  [category |-> "DELIVERY_PROBLEM", rootQuestionId |-> "delivery_1",
   questions |->
     ("delivery_1" :> Question("delivery_1", "SINGLE_CHOICE",
                               <<"Package is delayed", "Package delivered to wrong address", "Package is damaged",
                                 "Package is lost/missing", "Other delivery issue">>, TRUE,
                               ("Package is delayed" :> "delivery_2")
                            @@ ("Package delivered to wrong address" :> "delivery_3")
                            @@ ("Package is damaged" :> "delivery_4")
                            @@ ("Package is lost/missing" :> "delivery_5")
                            @@ ("Other delivery issue" :> "delivery_6"), <<>>))
  @@ ("delivery_2" :> Question("delivery_2", "SINGLE_CHOICE", <<"1-2 days", "3-5 days", "More than 5 days">>,
                               FALSE, NoMap, <<>>))
  @@ ("delivery_3" :> Question("delivery_3", "YES_NO", <<>>, TRUE, YesNoMap("delivery_3a", "delivery_3b"), <<>>))
  @@ ("delivery_3a" :> Question("delivery_3a", "TEXT_INPUT", <<>>, FALSE, NoMap, <<>>))
  @@ ("delivery_3b" :> Question("delivery_3b", "YES_NO", <<>>, FALSE, NoMap, <<>>))
  @@ ("delivery_4" :> Question("delivery_4", "TEXT_INPUT", <<>>, FALSE, NoMap,
                               <<RuleRequired("Please describe the damage"),
                                 RuleMinLength(10, "Please provide more details (at least 10 characters)")>>))
  @@ ("delivery_5" :> Question("delivery_5", "DATE", <<>>, FALSE, NoMap, <<>>))
  @@ ("delivery_6" :> Question("delivery_6", "TEXT_INPUT", <<>>, FALSE, NoMap,
                               <<RuleRequired("Please describe the issue")>>))]

PAYMENT_ISSUE_TREE ==
  [category |-> "PAYMENT_ISSUE", rootQuestionId |-> "payment_1",
   questions |->
     ("payment_1" :> Question("payment_1", "SINGLE_CHOICE",
                              <<"Payment was declined", "Charged incorrect amount", "Charged multiple times",
                                "Payment method not accepted", "Other payment issue">>, TRUE,
                              ("Payment was declined" :> "payment_2")
                           @@ ("Charged incorrect amount" :> "payment_3")
                           @@ ("Charged multiple times" :> "payment_4")
                           @@ ("Payment method not accepted" :> "payment_5")
                           @@ ("Other payment issue" :> "payment_6"), <<>>))
  @@ ("payment_2" :> Question("payment_2", "YES_NO", <<>>, FALSE, NoMap, <<>>))
  @@ ("payment_3" :> Question("payment_3", "TEXT_INPUT", <<>>, FALSE, NoMap,
                              <<RuleRequired("Please provide both amounts")>>))
  @@ ("payment_4" :> Question("payment_4", "SINGLE_CHOICE", <<"2 times", "3 times", "More than 3 times">>,
                              FALSE, NoMap, <<>>))
  @@ ("payment_5" :> Question("payment_5", "SINGLE_CHOICE", <<"Credit Card", "Debit Card", "PayPal", "Other">>,
                              FALSE, NoMap, <<>>))
  @@ ("payment_6" :> Question("payment_6", "TEXT_INPUT", <<>>, FALSE, NoMap,
                              <<RuleRequired("Please describe the issue")>>))]

REFUND_REQUEST_TREE ==
  [category |-> "REFUND_REQUEST", rootQuestionId |-> "refund_1",
   questions |->
     ("refund_1" :> Question("refund_1", "SINGLE_CHOICE",
                             <<"Product defective or damaged", "Wrong item received", "Changed my mind",
                               "Better price elsewhere", "Other reason">>, TRUE,
                             ("Product defective or damaged" :> "refund_2")
                          @@ ("Wrong item received" :> "refund_3")
                          @@ ("Changed my mind" :> "refund_4")
                          @@ ("Better price elsewhere" :> "refund_4")
                          @@ ("Other reason" :> "refund_5"), <<>>))
  @@ ("refund_2" :> Question("refund_2", "YES_NO", <<>>, TRUE, YesNoMap("refund_2a", "refund_2b"), <<>>))
  @@ ("refund_2a" :> Question("refund_2a", "TEXT_INPUT", <<>>, FALSE, NoMap,
                              <<RuleRequired("Tracking number is required")>>))
  @@ ("refund_2b" :> Question("refund_2b", "YES_NO", <<>>, FALSE, NoMap, <<>>))
  @@ ("refund_3" :> Question("refund_3", "TEXT_INPUT", <<>>, FALSE, NoMap,
                             <<RuleRequired("Please describe what you received")>>))
  @@ ("refund_4" :> Question("refund_4", "YES_NO", <<>>, FALSE, NoMap, <<>>))
  @@ ("refund_5" :> Question("refund_5", "TEXT_INPUT", <<>>, FALSE, NoMap,
                             <<RuleRequired("Please provide a reason"),
                               RuleMinLength(10, "Please provide more details")>>))]

PRODUCT_DEFECT_TREE ==
  [category |-> "PRODUCT_DEFECT", rootQuestionId |-> "defect_1",
   questions |->
     ("defect_1" :> Question("defect_1", "SINGLE_CHOICE",
                             <<"Product is broken or damaged", "Product does not work as expected",
                               "Missing parts or accessories", "Wrong product received",
                               "Product different from description">>, FALSE, NoMap, <<>>))
  @@ ("defect_2" :> Question("defect_2", "SINGLE_CHOICE",
                             <<"Upon delivery", "Within first week", "After 1-2 weeks", "After more than 2 weeks">>,
                             FALSE, NoMap, <<>>))]

ACCOUNT_ACCESS_TREE ==
  [category |-> "ACCOUNT_ACCESS", rootQuestionId |-> "account_1",
   questions |->
     ("account_1" :> Question("account_1", "SINGLE_CHOICE",
                              <<"Forgot password", "Account locked", "Cannot receive verification email",
                                "Username issues", "Other account issue">>, TRUE,
                              ("Forgot password" :> "account_2")
                           @@ ("Account locked" :> "account_3")
                           @@ ("Cannot receive verification email" :> "account_4")
                           @@ ("Username issues" :> "account_5")
                           @@ ("Other account issue" :> "account_6"), <<>>))
  @@ ("account_2" :> Question("account_2", "YES_NO", <<>>, FALSE, NoMap, <<>>))
  @@ ("account_3" :> Question("account_3", "YES_NO", <<>>, FALSE, NoMap, <<>>))
  @@ ("account_4" :> Question("account_4", "YES_NO", <<>>, FALSE, NoMap, <<>>))
  @@ ("account_5" :> Question("account_5", "TEXT_INPUT", <<>>, FALSE, NoMap, <<>>))
  @@ ("account_6" :> Question("account_6", "TEXT_INPUT", <<>>, FALSE, NoMap,
                              <<RuleRequired("Please describe the issue")>>))]

CANCELLATION_TREE ==
  [category |-> "CANCELLATION", rootQuestionId |-> "cancel_1",
   questions |->
     ("cancel_1" :> Question("cancel_1", "YES_NO", <<>>, TRUE, YesNoMap("cancel_2", "cancel_3"), <<>>))
  @@ ("cancel_2" :> Question("cancel_2", "SINGLE_CHOICE",
                             <<"Refuse delivery", "Return after receiving", "Keep the order">>, FALSE, NoMap, <<>>))
  @@ ("cancel_3" :> Question("cancel_3", "YES_NO", <<>>, FALSE, NoMap, <<>>))]

BILLING_INQUIRY_TREE ==
  [category |-> "BILLING_INQUIRY", rootQuestionId |-> "billing_1",
   questions |->
     ("billing_1" :> Question("billing_1", "SINGLE_CHOICE",
                              <<"Invoice copy", "Billing statement", "Charge details", "Other">>,
                              FALSE, NoMap, <<>>))]

OTHER_TREE ==
  [category |-> "OTHER", rootQuestionId |-> "other_1",
   questions |->
     ("other_1" :> Question("other_1", "TEXT_INPUT", <<>>, FALSE, NoMap,
                            <<RuleRequired("Please describe your issue"),
                              RuleMinLength(20, "Please provide more details (at least 20 characters)")>>))]

QUESTION_TREES ==
     ("ORDER_STATUS" :> ORDER_STATUS_TREE)
  @@ ("DELIVERY_PROBLEM" :> DELIVERY_PROBLEM_TREE)
  @@ ("PAYMENT_ISSUE" :> PAYMENT_ISSUE_TREE)
  @@ ("REFUND_REQUEST" :> REFUND_REQUEST_TREE)
  @@ ("PRODUCT_DEFECT" :> PRODUCT_DEFECT_TREE)
  @@ ("ACCOUNT_ACCESS" :> ACCOUNT_ACCESS_TREE)
  @@ ("BILLING_INQUIRY" :> BILLING_INQUIRY_TREE)
  @@ ("CANCELLATION" :> CANCELLATION_TREE)
  @@ ("OTHER" :> OTHER_TREE)

(***************************************************************************)
(* Property reads on plain JavaScript objects.  `obj[key]` yields the own *)
(* property when there is one, else the property inherited from           *)
(* Object.prototype when `key` names one (a function or object: truthy,   *)
(* and no question id), else undefined.                                   *)
(***************************************************************************)
ObjectPrototypeKeys ==
  {"constructor", "__proto__", "hasOwnProperty", "isPrototypeOf", "propertyIsEnumerable",
   "toLocaleString", "toString", "valueOf"}

Inherited(key) == "<Object.prototype." \o key \o ">"

IsInherited(v) == \E k \in ObjectPrototypeKeys : v = Inherited(k)

\* question.nextQuestionMap[answer]
PropertyRead(obj, key) ==
  IF key \in DOMAIN obj THEN obj[key]
  ELSE IF key \in ObjectPrototypeKeys THEN Inherited(key)
  ELSE Undefined

\* `undefined` where a Question is expected, and a member inherited from
\* Object.prototype read as a Question (truthy, every Question field undefined)
UndefinedQuestion == Question(Undefined, Undefined, <<>>, FALSE, NoMap, <<>>)
InheritedQuestion(key) == Question(Inherited(key), Undefined, <<>>, FALSE, NoMap, <<>>)

getQuestionTree(category) == QUESTION_TREES[category]

\* tree.questions[questionId]
getQuestion(category, questionId) ==
  LET questions == QUESTION_TREES[category].questions
  IN  IF questionId \in DOMAIN questions THEN questions[questionId]
      ELSE IF questionId \in ObjectPrototypeKeys THEN InheritedQuestion(questionId)
      ELSE UndefinedQuestion

\* variant: an answer the map does not list keeps the current question
getNextQuestionId_Stay(category, currentQuestionId, answer) ==
  LET question == getQuestion(category, currentQuestionId)
  IN  IF question = UndefinedQuestion \/ ~question.hasNextQuestionMap THEN Undefined
      ELSE IF PropertyRead(question.nextQuestionMap, answer) = Undefined THEN currentQuestionId
      ELSE PropertyRead(question.nextQuestionMap, answer)

getNextQuestionId(category, currentQuestionId, answer) ==
  LET question == getQuestion(category, currentQuestionId)
  IN  IF question = UndefinedQuestion \/ ~question.hasNextQuestionMap THEN Undefined
      ELSE PropertyRead(question.nextQuestionMap, answer)

(***************************************************************************)
(* Resolution paths.  expectedAnswer is a string or a list of strings; an *)
(* absent `steps` is the empty sequence and an absent escalationReason or *)
(* estimatedTime the empty string (the services read them as `x || d`).   *)
(***************************************************************************)
Str(s) == [isArray |-> FALSE, str |-> s, arr |-> <<>>]
Arr(a) == [isArray |-> TRUE, str |-> "", arr |-> a]

Cond(questionId, expectedAnswer, operator) ==
  [questionId |-> questionId, expectedAnswer |-> expectedAnswer, operator |-> operator]

Path(id, category, type, conditions, steps, escalationReason, estimatedTime) ==
  [id |-> id, category |-> category, type |-> type, conditions |-> conditions, steps |-> steps,
   escalationReason |-> escalationReason, estimatedTime |-> estimatedTime]

ORDER_STATUS_RESOLUTIONS ==
  << Path("order_status_found", "ORDER_STATUS", "INFORMATION_PROVIDED",
          <<Cond("order_status_2", Str(""), "contains")>>, <<>>, "", "Immediate"),
     Path("order_status_email_lookup", "ORDER_STATUS", "INFORMATION_PROVIDED",
          <<Cond("order_status_3", Str(""), "contains")>>, <<>>, "", "Immediate") >>

DELIVERY_PROBLEM_RESOLUTIONS ==
  << Path("delivery_delayed_minor", "DELIVERY_PROBLEM", "INFORMATION_PROVIDED",
          <<Cond("delivery_1", Str("Package is delayed"), "equals"),
            Cond("delivery_2", Str("1-2 days"), "equals")>>,
          <<"Check tracking information for latest updates",
            "Delivery delays of 1-2 days are common due to weather or high volume",
            "Your package should arrive within the next 24-48 hours">>, "", "24-48 hours"),
     Path("delivery_delayed_major", "DELIVERY_PROBLEM", "ESCALATE_AGENT",
          <<Cond("delivery_1", Str("Package is delayed"), "equals"),
            Cond("delivery_2", Arr(<<"3-5 days", "More than 5 days">>), "in")>>,
          <<>>, "Significant delivery delay requires investigation", "24 hours for agent response"),
     Path("delivery_wrong_address", "DELIVERY_PROBLEM", "ESCALATE_AGENT",
          <<Cond("delivery_1", Str("Package delivered to wrong address"), "equals")>>,
          <<>>, "Wrong address delivery requires carrier investigation", "24-48 hours for resolution"),
     Path("delivery_damaged", "DELIVERY_PROBLEM", "ESCALATE_AGENT",
          <<Cond("delivery_1", Str("Package is damaged"), "equals")>>,
          <<>>, "Damaged package requires inspection and potential replacement", "48 hours for resolution"),
     Path("delivery_lost", "DELIVERY_PROBLEM", "ESCALATE_SPECIALIST",
          <<Cond("delivery_1", Str("Package is lost/missing"), "equals")>>,
          <<>>, "Lost package requires carrier claim and replacement processing", "3-5 business days") >>

PAYMENT_ISSUE_RESOLUTIONS ==
  << Path("payment_declined_self_service", "PAYMENT_ISSUE", "SELF_SERVICE",
          <<Cond("payment_1", Str("Payment was declined"), "equals"),
            Cond("payment_2", Str("no"), "equals")>>,
          <<"Verify your payment method has sufficient funds",
            "Check with your bank that the card is not blocked",
            "Ensure billing address matches your bank records",
            "Try a different payment method if issue persists">>, "", "Immediate"),
     Path("payment_declined_escalate", "PAYMENT_ISSUE", "ESCALATE_AGENT",
          <<Cond("payment_1", Str("Payment was declined"), "equals"),
            Cond("payment_2", Str("yes"), "equals")>>,
          <<>>, "Payment declined despite sufficient funds - requires investigation", "24 hours"),
     Path("payment_wrong_amount", "PAYMENT_ISSUE", "ESCALATE_AGENT",
          <<Cond("payment_1", Str("Charged incorrect amount"), "equals")>>,
          <<>>, "Incorrect charge amount requires billing review", "24-48 hours"),
     Path("payment_multiple_charges", "PAYMENT_ISSUE", "ESCALATE_SPECIALIST",
          <<Cond("payment_1", Str("Charged multiple times"), "equals")>>,
          <<>>, "Multiple charges require immediate refund processing", "24 hours for refund initiation") >>

REFUND_REQUEST_RESOLUTIONS ==
  << Path("refund_defective_returned", "REFUND_REQUEST", "AUTOMATED_ACTION",
          <<Cond("refund_1", Str("Product defective or damaged"), "equals"),
            Cond("refund_2", Str("yes"), "equals")>>,
          <<"Refund will be processed once return is received",
            "Expected processing time: 3-5 business days after receipt",
            "Refund will be issued to original payment method">>, "", "3-5 business days after return receipt"),
     Path("refund_defective_not_returned", "REFUND_REQUEST", "SELF_SERVICE",
          <<Cond("refund_1", Str("Product defective or damaged"), "equals"),
            Cond("refund_2", Str("no"), "equals"),
            Cond("refund_2b", Str("yes"), "equals")>>,
          <<"Print the prepaid return label from your order page",
            "Package the item securely in original packaging if possible",
            "Attach the label and drop off at any carrier location",
            "Refund will be processed 3-5 days after we receive the return">>, "", "7-10 business days total"),
     Path("refund_changed_mind_eligible", "REFUND_REQUEST", "SELF_SERVICE",
          <<Cond("refund_1", Arr(<<"Changed my mind", "Better price elsewhere">>), "in"),
            Cond("refund_4", Str("yes"), "equals")>>,
          <<"You can return the item within 30 days of purchase",
            "Item must be unused and in original packaging",
            "Print return label from your order page",
            "Refund will be processed minus original shipping cost">>, "", "7-10 business days"),
     Path("refund_changed_mind_ineligible", "REFUND_REQUEST", "ESCALATE_AGENT",
          <<Cond("refund_1", Arr(<<"Changed my mind", "Better price elsewhere">>), "in"),
            Cond("refund_4", Str("no"), "equals")>>,
          <<>>, "Item not in original condition - requires case-by-case review", "24-48 hours") >>

PRODUCT_DEFECT_RESOLUTIONS ==
  << Path("defect_immediate", "PRODUCT_DEFECT", "ESCALATE_AGENT",
          <<Cond("defect_2", Str("Upon delivery"), "equals")>>,
          <<>>, "Defect upon delivery - eligible for immediate replacement", "24 hours for replacement processing"),
     Path("defect_warranty", "PRODUCT_DEFECT", "ESCALATE_AGENT",
          <<Cond("defect_2", Arr(<<"Within first week", "After 1-2 weeks">>), "in")>>,
          <<>>, "Product defect within warranty period", "48 hours for resolution"),
     Path("defect_late", "PRODUCT_DEFECT", "ESCALATE_SPECIALIST",
          <<Cond("defect_2", Str("After more than 2 weeks"), "equals")>>,
          <<>>, "Late defect report - requires warranty verification", "3-5 business days") >>

ACCOUNT_ACCESS_RESOLUTIONS ==
  << Path("account_password_self_service", "ACCOUNT_ACCESS", "SELF_SERVICE",
          <<Cond("account_1", Str("Forgot password"), "equals"),
            Cond("account_2", Str("no"), "equals")>>,
          <<"Go to the login page",
            "Click \"Forgot Password\" link",
            "Enter your email address",
            "Check your email for reset link (check spam folder)",
            "Follow the link to create a new password">>, "", "Immediate"),
     Path("account_password_escalate", "ACCOUNT_ACCESS", "ESCALATE_AGENT",
          <<Cond("account_1", Str("Forgot password"), "equals"),
            Cond("account_2", Str("yes"), "equals")>>,
          <<>>, "Password reset not working - requires manual intervention", "2-4 hours"),
     Path("account_locked", "ACCOUNT_ACCESS", "ESCALATE_AGENT",
          <<Cond("account_1", Str("Account locked"), "equals")>>,
          <<>>, "Account locked - requires security review and unlock", "4-6 hours"),
     Path("account_email_issue", "ACCOUNT_ACCESS", "SELF_SERVICE",
          <<Cond("account_1", Str("Cannot receive verification email"), "equals"),
            Cond("account_4", Str("no"), "equals")>>,
          <<"Check your spam/junk folder",
            "Add noreply@shopease.com to your contacts",
            "Check if your email provider is blocking our emails",
            "Try requesting a new verification email">>, "", "Immediate") >>

CANCELLATION_RESOLUTIONS ==
  << Path("cancel_not_shipped", "CANCELLATION", "AUTOMATED_ACTION",
          <<Cond("cancel_1", Str("no"), "equals"),
            Cond("cancel_3", Str("yes"), "equals")>>,
          <<"Your order has been cancelled",
            "Refund will be processed within 3-5 business days",
            "You will receive a confirmation email shortly">>, "", "3-5 business days for refund"),
     Path("cancel_shipped_refuse", "CANCELLATION", "SELF_SERVICE",
          <<Cond("cancel_1", Str("yes"), "equals"),
            Cond("cancel_2", Str("Refuse delivery"), "equals")>>,
          <<"When the carrier attempts delivery, refuse to accept the package",
            "The package will be returned to us automatically",
            "Refund will be processed once we receive the return",
            "Expected timeline: 7-10 business days">>, "", "7-10 business days"),
     Path("cancel_shipped_return", "CANCELLATION", "SELF_SERVICE",
          <<Cond("cancel_1", Str("yes"), "equals"),
            Cond("cancel_2", Str("Return after receiving"), "equals")>>,
          <<"Accept the delivery when it arrives",
            "Initiate a return from your order page",
            "Print the prepaid return label",
            "Ship the item back to us",
            "Refund will be processed after we receive it">>, "", "10-14 business days") >>

BILLING_INQUIRY_RESOLUTIONS ==
  << Path("billing_invoice", "BILLING_INQUIRY", "SELF_SERVICE",
          <<Cond("billing_1", Str("Invoice copy"), "equals")>>,
          <<"Log in to your account",
            "Go to Order History",
            "Click on the order you need an invoice for",
            "Click \"Download Invoice\" button",
            "Invoice will be downloaded as PDF">>, "", "Immediate"),
     Path("billing_other", "BILLING_INQUIRY", "ESCALATE_AGENT",
          <<Cond("billing_1", Arr(<<"Billing statement", "Charge details", "Other">>), "in")>>,
          <<>>, "Billing inquiry requires detailed account review", "24 hours") >>

OTHER_RESOLUTIONS ==
  << Path("other_escalate", "OTHER", "ESCALATE_AGENT", <<>>, <<>>,
          "Issue does not fit predefined categories - requires human review", "24-48 hours") >>

RESOLUTION_PATHS ==
     ("ORDER_STATUS" :> ORDER_STATUS_RESOLUTIONS)
  @@ ("DELIVERY_PROBLEM" :> DELIVERY_PROBLEM_RESOLUTIONS)
  @@ ("PAYMENT_ISSUE" :> PAYMENT_ISSUE_RESOLUTIONS)
  @@ ("REFUND_REQUEST" :> REFUND_REQUEST_RESOLUTIONS)
  @@ ("PRODUCT_DEFECT" :> PRODUCT_DEFECT_RESOLUTIONS)
  @@ ("ACCOUNT_ACCESS" :> ACCOUNT_ACCESS_RESOLUTIONS)
  @@ ("BILLING_INQUIRY" :> BILLING_INQUIRY_RESOLUTIONS)
  @@ ("CANCELLATION" :> CANCELLATION_RESOLUTIONS)
  @@ ("OTHER" :> OTHER_RESOLUTIONS)

\* Array.prototype.includes
ArrayIncludes(arr, x) == \E i \in 1..Len(arr) : arr[i] = x

\* answers[questionId]; the answers map is a function from the recorded
\* question ids to answer strings
AnswerOf(answers, questionId) == IF questionId \in DOMAIN answers THEN answers[questionId] ELSE Undefined

\* variant: `contains` compared with ===
ConditionPasses_ContainsAsEquals(condition, answers) ==
  LET userAnswer == AnswerOf(answers, condition.questionId)
      expected == condition.expectedAnswer
  IN  IF userAnswer = Undefined \/ userAnswer = "" THEN FALSE
      ELSE CASE condition.operator = "equals" -> ~expected.isArray /\ userAnswer = expected.str
             [] condition.operator = "contains" -> ~(~expected.isArray /\ userAnswer # expected.str)
             [] condition.operator = "in" -> ~(expected.isArray /\ ~ArrayIncludes(expected.arr, userAnswer))
             [] OTHER -> TRUE

\* variant: `in` compared with ===
ConditionPasses_InAsEquals(condition, answers) ==
  LET userAnswer == AnswerOf(answers, condition.questionId)
      expected == condition.expectedAnswer
  IN  IF userAnswer = Undefined \/ userAnswer = "" THEN FALSE
      ELSE CASE condition.operator = "equals" -> ~expected.isArray /\ userAnswer = expected.str
             [] condition.operator = "contains" -> ~(~expected.isArray /\ ~Includes(userAnswer, expected.str))
             [] condition.operator = "in" -> ~expected.isArray /\ userAnswer = expected.str
             [] OTHER -> TRUE

\* one iteration of the loop of checkConditions: TRUE iff the condition
\* does not make the loop return false
ConditionPasses(condition, answers) ==
  LET userAnswer == AnswerOf(answers, condition.questionId)
      expected == condition.expectedAnswer
  IN  IF userAnswer = Undefined \/ userAnswer = "" THEN FALSE       \* !userAnswer
      ELSE CASE condition.operator = "equals" ->
                  ~expected.isArray /\ userAnswer = expected.str    \* a string never === an array
             [] condition.operator = "contains" ->
                  ~(~expected.isArray /\ ~Includes(userAnswer, expected.str))
             [] condition.operator = "in" ->
                  ~(expected.isArray /\ ~ArrayIncludes(expected.arr, userAnswer))
             [] condition.operator \in {"greaterThan", "lessThan"} -> TRUE
             [] OTHER -> TRUE

checkConditions(conditions, answers) ==
  IF Len(conditions) = 0 THEN TRUE
  ELSE \A i \in 1..Len(conditions) : ConditionPasses(conditions[i], answers)

\* variant: the loop keeps the last path that matches instead of returning
\* the first
FindMatchingIn_LastMatch(paths, answers) ==
  IF \E i \in 1..Len(paths) : checkConditions(paths[i].conditions, answers)
  THEN paths[CHOOSE i \in 1..Len(paths) :
                /\ checkConditions(paths[i].conditions, answers)
                /\ \A j \in (i + 1)..Len(paths) : ~checkConditions(paths[j].conditions, answers)]
  ELSE paths[Len(paths)]

\* the body of findMatchingResolution over a given path list
FindMatchingIn(paths, answers) ==
  IF \E i \in 1..Len(paths) : checkConditions(paths[i].conditions, answers)
  THEN paths[CHOOSE i \in 1..Len(paths) :
                /\ checkConditions(paths[i].conditions, answers)
                /\ \A j \in 1..(i - 1) : ~checkConditions(paths[j].conditions, answers)]
  ELSE paths[Len(paths)]

findMatchingResolution(category, answers) == FindMatchingIn(RESOLUTION_PATHS[category], answers)

(***************************************************************************)
(* Resolution service.  The clock, Math.random and uuidv4 are parameters: *)
(* `now` is the time in milliseconds, `rnd` the value of                  *)
(* Math.floor(Math.random() * 10000) and `uuid` the first 8 hex digits of *)
(* a fresh uuid.                                                          *)
(***************************************************************************)
MS_PER_DAY == 86400000

\* date.toISOString().slice(0, 10).replace(/-/g, ''): the UTC calendar day,
\* written here as the day number since the epoch
DateStr(now) == "D" \o ToString(now \div MS_PER_DAY)

RECURSIVE PadStart(_, _, _)
PadStart(s, n, fill) == IF Len(s) >= n THEN s ELSE PadStart(fill \o s, n, fill)

generateTicketNumber(now, rnd) == "TKT-" \o DateStr(now) \o "-" \o PadStart(ToString(rnd), 4, "0")

generateReferenceNumber(uuid) == "REF-" \o ToUpperCase(uuid)

\* variant: every priority is given the default team
getTeamForPriority_Default(priority) == "Customer Support Team"

getTeamForPriority(priority) ==
  CASE priority = "urgent" -> "Priority Support Team"
    [] priority = "high" -> "Specialist Team"
    [] priority = "medium" -> "Customer Support Team"
    [] priority = "low" -> "General Support Team"
    [] OTHER -> "Customer Support Team"

NoEscalationDetails == [team |-> Undefined, priority |-> Undefined, estimatedResponseTime |-> Undefined, ticketNumber |-> Undefined]

\* Resolution; absent optional fields are Undefined (steps: hasSteps = FALSE)
Resolution(type, message, hasSteps, steps, escalationDetails, referenceNumber) ==
  [type |-> type, message |-> message, hasSteps |-> hasSteps, steps |-> steps,
   escalationDetails |-> escalationDetails, referenceNumber |-> referenceNumber]

NoResolution == Resolution(Undefined, Undefined, FALSE, <<>>, NoEscalationDetails, Undefined)

\* variant: the steps are not handed on
createSelfServiceResolution_NoSteps(steps) ==
  Resolution("SELF_SERVICE", "You can resolve this issue yourself by following these steps:",
             FALSE, <<>>, NoEscalationDetails, Undefined)

createSelfServiceResolution(steps) ==
  Resolution("SELF_SERVICE", "You can resolve this issue yourself by following these steps:",
             TRUE, steps, NoEscalationDetails, Undefined)

createAutomatedActionResolution(steps, estimatedTime, uuid) ==
  Resolution("AUTOMATED_ACTION", "I'll take care of this for you. Here's what will happen:",
             TRUE, steps, NoEscalationDetails, generateReferenceNumber(uuid))

createInformationResolution(info, answers) ==
  Resolution("INFORMATION_PROVIDED", "Here's the information you need:",
             TRUE, info, NoEscalationDetails, Undefined)

createEscalationResolution(reason, priority, estimatedTime, now, rnd) ==
  LET ticketNumber == generateTicketNumber(now, rnd)
  IN  Resolution(IF priority = "high" \/ priority = "urgent" THEN "ESCALATE_SPECIALIST" ELSE "ESCALATE_AGENT",
                 "I've created a support ticket for you. Our team will help resolve this issue.",
                 FALSE, <<>>,
                 [team |-> getTeamForPriority(priority), priority |-> priority,
                  estimatedResponseTime |-> estimatedTime, ticketNumber |-> ticketNumber],
                 ticketNumber)

\* x || d for strings
OrElse(x, d) == IF x = "" \/ x = Undefined THEN d ELSE x

\* the switch of findResolution on the matched path's type
buildResolution(path, answers, now, rnd, uuid) ==
      CASE path.type = "SELF_SERVICE" -> createSelfServiceResolution(path.steps)
        [] path.type = "AUTOMATED_ACTION" ->
             createAutomatedActionResolution(path.steps, OrElse(path.estimatedTime, "Processing"), uuid)
        [] path.type = "INFORMATION_PROVIDED" -> createInformationResolution(path.steps, answers)
        [] path.type = "ESCALATE_AGENT" ->
             createEscalationResolution(OrElse(path.escalationReason, "Requires agent assistance"), "medium",
                                        OrElse(path.estimatedTime, "24 hours"), now, rnd)
        [] path.type = "ESCALATE_SPECIALIST" ->
             createEscalationResolution(OrElse(path.escalationReason, "Requires specialist team"), "high",
                                        OrElse(path.estimatedTime, "48 hours"), now, rnd)
        [] OTHER -> createEscalationResolution("Unknown resolution type", "medium", "24 hours", now, rnd)

\* every category declares paths, so findMatchingResolution returns one
findResolution(category, answers, now, rnd, uuid) ==
  buildResolution(findMatchingResolution(category, answers), answers, now, rnd, uuid)

(***************************************************************************)
(* Conversation service.                                                  *)
(***************************************************************************)
MAX_TEXT_LENGTH == 1000

Valid == [valid |-> TRUE, error |-> Undefined]
Invalid(msg) == [valid |-> FALSE, error |-> msg]

getFirstQuestion(category) == getQuestion(category, getQuestionTree(category).rootQuestionId)

\* the question returned, or UndefinedQuestion
getNextQuestion(category, currentQuestionId, answer) ==
  LET nextQuestionId == getNextQuestionId(category, currentQuestionId, answer)
  IN  IF nextQuestionId = Undefined THEN UndefinedQuestion
      ELSE getQuestion(category, nextQuestionId)

\* the console.error branch of getNextQuestion: a next id that names no question
NextQuestionNotFound(category, currentQuestionId, answer) ==
  LET nextQuestionId == getNextQuestionId(category, currentQuestionId, answer)
  IN  nextQuestionId # Undefined /\ getQuestion(category, nextQuestionId) = UndefinedQuestion

validateRule(rule, answer) ==
  CASE rule.type = "required" ->
         IF answer = "" \/ Len(Trim(answer)) = 0 THEN Invalid(rule.errorMessage) ELSE Valid
    [] rule.type = "pattern" ->
         IF rule.valueType = "string" /\ ~RegExpTest(rule.strValue, answer) THEN Invalid(rule.errorMessage) ELSE Valid
    [] rule.type = "minLength" ->
         IF rule.valueType = "number" /\ Len(answer) < rule.numValue THEN Invalid(rule.errorMessage) ELSE Valid
    [] rule.type = "maxLength" ->
         IF rule.valueType = "number" /\ Len(answer) > rule.numValue THEN Invalid(rule.errorMessage) ELSE Valid
    [] OTHER -> Valid

\* variant: the rules are consulted before the emptiness and length checks
validateAnswer_RulesFirst(question, answer) ==
  IF \E i \in 1..Len(question.validationRules) : ~validateRule(question.validationRules[i], answer).valid
  THEN validateRule(question.validationRules[
           CHOOSE i \in 1..Len(question.validationRules) :
              /\ ~validateRule(question.validationRules[i], answer).valid
              /\ \A j \in 1..(i - 1) : validateRule(question.validationRules[j], answer).valid], answer)
  ELSE IF answer = "" \/ Len(Trim(answer)) = 0 THEN Invalid("Answer cannot be empty")
  ELSE IF Len(answer) > MAX_TEXT_LENGTH THEN Invalid("Answer is too long (maximum 1000 characters)")
  ELSE Valid

validateAnswer(question, answer) ==
  IF answer = "" \/ Len(Trim(answer)) = 0 THEN Invalid("Answer cannot be empty")
  ELSE IF Len(answer) > MAX_TEXT_LENGTH THEN Invalid("Answer is too long (maximum 1000 characters)")
  ELSE IF Len(question.validationRules) = 0 THEN Valid
  ELSE IF \E i \in 1..Len(question.validationRules) : ~validateRule(question.validationRules[i], answer).valid
       THEN validateRule(question.validationRules[
                CHOOSE i \in 1..Len(question.validationRules) :
                   /\ ~validateRule(question.validationRules[i], answer).valid
                   /\ \A j \in 1..(i - 1) : validateRule(question.validationRules[j], answer).valid], answer)
  ELSE Valid

RECURSIVE ParseInt(_)
ParseInt(s) == IF s = "" THEN 0 ELSE 10 * ParseInt(SubSeq(s, 1, Len(s) - 1)) + (IndexIn(CharAt(s, Len(s)), Digits) - 1)

\* variant: the yes/no spellings are compared without lowering their case
parseUserAnswer_CaseSensitive(question, rawAnswer) ==
  LET trimmed == Trim(rawAnswer)
  IN  CASE question.type = "YES_NO" ->
             IF trimmed = "yes" \/ trimmed = "y" \/ trimmed = "true" THEN "yes"
             ELSE IF trimmed = "no" \/ trimmed = "n" \/ trimmed = "false" THEN "no"
             ELSE trimmed
        [] question.type = "ORDER_ID" -> ToUpperCase(trimmed)
        [] OTHER -> trimmed

\* variant: the number typed is used as a 0-based index
parseUserAnswer_ZeroBased(question, rawAnswer) ==
  LET trimmed == Trim(rawAnswer)
      lower == ToLowerCase(trimmed)
  IN  CASE question.type = "YES_NO" ->
             IF lower = "yes" \/ lower = "y" \/ lower = "true" THEN "yes"
             ELSE IF lower = "no" \/ lower = "n" \/ lower = "false" THEN "no"
             ELSE trimmed
        [] question.type = "SINGLE_CHOICE" ->
             IF Len(question.options) > 0 /\ trimmed # "" /\ AllDigits(trimmed)
                /\ ParseInt(trimmed) >= 0 /\ ParseInt(trimmed) < Len(question.options)
             THEN question.options[ParseInt(trimmed) + 1]
             ELSE trimmed
        [] question.type = "ORDER_ID" -> ToUpperCase(trimmed)
        [] OTHER -> trimmed

parseUserAnswer(question, rawAnswer) ==
  LET trimmed == Trim(rawAnswer)
      lower == ToLowerCase(trimmed)
  IN  CASE question.type = "YES_NO" ->
             IF lower = "yes" \/ lower = "y" \/ lower = "true" THEN "yes"
             ELSE IF lower = "no" \/ lower = "n" \/ lower = "false" THEN "no"
             ELSE trimmed
        [] question.type = "SINGLE_CHOICE" ->
             \* `question.options &&` : an absent option list is the empty sequence
             IF Len(question.options) > 0 /\ trimmed # "" /\ AllDigits(trimmed)
                /\ ParseInt(trimmed) - 1 >= 0 /\ ParseInt(trimmed) - 1 < Len(question.options)
             THEN question.options[ParseInt(trimmed)]
             ELSE trimmed
        [] question.type = "ORDER_ID" -> ToUpperCase(trimmed)
        [] OTHER -> trimmed

\* session.category is Undefined until a classification is stored
shouldProceedToResolution(session, currentQuestion, answer) ==
  IF session.category = Undefined THEN FALSE
  ELSE getNextQuestionId(session.category, currentQuestion.id, answer) = Undefined

(***************************************************************************)
(* State.                                                                  *)
(*   sessions, keyOrder : the session Map and the insertion order of its  *)
(*                        keys                                            *)
(*   created           : the number of session ids uuidv4 has issued      *)
(*   now               : the clock (ms)                                   *)
(*   requests          : the /api/chat requests in flight                 *)
(*   input, output     : argument and result of a service function that   *)
(*                       is applied on its own; under Spec, output is the *)
(*                       last HTTP response sent                          *)
(***************************************************************************)
VARIABLES sessions, keyOrder, created, now, requests, input, output

storeVars == <<sessions, keyOrder, created, now, requests>>
callVars == <<input, output>>
vars == <<sessions, keyOrder, created, now, requests, input, output>>

(***************************************************************************)
(* Session service.  The Map is the pair (sessions, keyOrder); an         *)
(* operation takes the store and the time and yields the store it leaves. *)
(***************************************************************************)
TIMEOUT_MS == 1800000
MAX_MESSAGES == 100
MAX_ACTIVE_SESSIONS == 1000

Message(role, content, timestamp) == [role |-> role, content |-> content, timestamp |-> timestamp]

\* ConversationSession; an absent category, currentQuestionId is Undefined,
\* an absent confidence is -1, an absent resolution is NoResolution;
\* confidence is kept in hundredths
ConversationSession(sessionId, mode, t) ==
  [sessionId |-> sessionId, mode |-> mode, category |-> Undefined, confidence |-> -1,
   answers |-> <<>>, currentQuestionId |-> Undefined, conversationHistory |-> <<>>,
   createdAt |-> t, updatedAt |-> t, resolved |-> FALSE, resolution |-> NoResolution]

Store == [sessions |-> sessions, keyOrder |-> keyOrder]

\* Map.prototype.delete and Map.prototype.set
MapDelete(store, id) ==
  [sessions |-> [k \in DOMAIN store.sessions \ {id} |-> store.sessions[k]],
   keyOrder |-> SelectSeq(store.keyOrder, LAMBDA k : k # id)]

MapSet(store, id, session) ==
  [sessions |-> (id :> session) @@ store.sessions,
   keyOrder |-> IF id \in DOMAIN store.sessions THEN store.keyOrder ELSE Append(store.keyOrder, id)]

\* variant: a session is expired as soon as the timeout is reached
Expired_AtTimeout(session, t) == t - session.updatedAt >= TIMEOUT_MS

Expired(session, t) == t - session.updatedAt > TIMEOUT_MS

\* getSession returns a session iff Live; it leaves the store AfterGet
Live(store, id, t) == id \in DOMAIN store.sessions /\ ~Expired(store.sessions[id], t)

\* variant: a get counts as activity of a live session
AfterGet_Touch(store, id, t) ==
  IF id \notin DOMAIN store.sessions THEN store
  ELSE IF Expired(store.sessions[id], t) THEN MapDelete(store, id)
  ELSE MapSet(store, id, [store.sessions[id] EXCEPT !.updatedAt = t])

\* variant: an expired session is reported absent and left in the store
AfterGet_Keep(store, id, t) == store

AfterGet(store, id, t) ==
  IF id \in DOMAIN store.sessions /\ Expired(store.sessions[id], t) THEN MapDelete(store, id) ELSE store

\* variant: at capacity the session stored last is removed
createSession_EvictLast(store, sessionId, mode, initialMessage, t) ==
  LET session == ConversationSession(sessionId, mode, t)
      room == IF Cardinality(DOMAIN store.sessions) >= MAX_ACTIVE_SESSIONS
              THEN MapDelete(store, store.keyOrder[Len(store.keyOrder)])
              ELSE store
  IN  MapSet(room, sessionId, session)

\* variant: no session is removed at capacity
createSession_NoRoom(store, sessionId, mode, initialMessage, t) ==
  MapSet(store, sessionId, ConversationSession(sessionId, mode, t))

createSession(store, sessionId, mode, initialMessage, t) ==
  LET fresh == ConversationSession(sessionId, mode, t)
      session == IF initialMessage # ""
                 THEN [fresh EXCEPT !.conversationHistory = <<Message("user", initialMessage, t)>>]
                 ELSE fresh
      room == IF Cardinality(DOMAIN store.sessions) >= MAX_ACTIVE_SESSIONS
              THEN MapDelete(store, store.keyOrder[1])
              ELSE store
  IN  MapSet(room, sessionId, session)

updateSession(store, sessionId, category, confidence, t) ==
  IF ~Live(store, sessionId, t) THEN AfterGet(store, sessionId, t)
  ELSE MapSet(store, sessionId,
              [store.sessions[sessionId] EXCEPT !.category = category, !.confidence = confidence,
                                                !.updatedAt = t])

\* variant: the history is never cut
addMessage_NoTrim(store, sessionId, role, content, t) ==
  IF ~Live(store, sessionId, t) THEN AfterGet(store, sessionId, t)
  ELSE LET session == store.sessions[sessionId]
       IN  MapSet(store, sessionId,
                  [session EXCEPT !.conversationHistory = Append(@, Message(role, content, t)),
                                  !.updatedAt = t])

addMessage(store, sessionId, role, content, t) ==
  IF ~Live(store, sessionId, t) THEN AfterGet(store, sessionId, t)
  ELSE LET session == store.sessions[sessionId]
           history == session.conversationHistory
           kept == IF Len(history) >= MAX_MESSAGES
                   THEN SubSeq(history, Len(history) - 50 + 1, Len(history))
                   ELSE history
       IN  MapSet(store, sessionId,
                  [session EXCEPT !.conversationHistory = Append(kept, Message(role, content, t)),
                                  !.updatedAt = t])

\* variant: every session shares one answers object
addAnswer_Shared(store, sessionId, questionId, answer, t) ==
  IF ~Live(store, sessionId, t) THEN AfterGet(store, sessionId, t)
  ELSE [sessions |-> [k \in DOMAIN store.sessions |->
                        IF k = sessionId
                        THEN [store.sessions[k] EXCEPT !.answers = (questionId :> answer) @@ @, !.updatedAt = t]
                        ELSE [store.sessions[k] EXCEPT !.answers = (questionId :> answer) @@ @]],
        keyOrder |-> store.keyOrder]

addAnswer(store, sessionId, questionId, answer, t) ==
  IF ~Live(store, sessionId, t) THEN AfterGet(store, sessionId, t)
  ELSE LET session == store.sessions[sessionId]
       IN  MapSet(store, sessionId,
                  [session EXCEPT !.answers = (questionId :> answer) @@ session.answers, !.updatedAt = t])

markSessionResolved(store, sessionId, resolution, t) ==
  IF ~Live(store, sessionId, t) THEN AfterGet(store, sessionId, t)
  ELSE MapSet(store, sessionId,
              [store.sessions[sessionId] EXCEPT !.resolved = TRUE, !.resolution = resolution,
                                                !.updatedAt = t])

deleteSession(store, sessionId) == MapDelete(store, sessionId)

\* variant: the sweep's test is inverted
cleanupExpiredSessions_Inverted(store, t) ==
  [sessions |-> [k \in {k \in DOMAIN store.sessions : Expired(store.sessions[k], t)} |-> store.sessions[k]],
   keyOrder |-> SelectSeq(store.keyOrder, LAMBDA k : Expired(store.sessions[k], t))]

cleanupExpiredSessions(store, t) ==
  [sessions |-> [k \in {k \in DOMAIN store.sessions : ~Expired(store.sessions[k], t)} |-> store.sessions[k]],
   keyOrder |-> SelectSeq(store.keyOrder, LAMBDA k : ~Expired(store.sessions[k], t))]

getSessionCount(store) == Cardinality(DOMAIN store.sessions)

getAllSessions(store) == [i \in 1..Len(store.keyOrder) |-> store.sessions[store.keyOrder[i]]]

NoPath == Path(Undefined, Undefined, Undefined, <<>>, <<>>, "", "")

(***************************************************************************)
(* Intelligent conversation service.  The language model stands behind    *)
(* generateGreeting, generateCategoryOptions, generateIntelligentResponse,*)
(* classifyIssue, determineNextAction, generateSolution and               *)
(* handleOutOfScope: a handler is suspended while one of them runs, and   *)
(* what it returns is chosen by the environment.                          *)
(***************************************************************************)
\* the text an adapter call returns
Phrase(kind) == "<" \o kind \o ">"

\* split(/\s+/).filter(w => w.length > 3), from position i with `word` begun
RECURSIVE LongWordsFrom(_, _, _)
LongWordsFrom(s, i, word) ==
  IF i > Len(s) THEN (IF Len(word) > 3 THEN <<word>> ELSE <<>>)
  ELSE IF IsWhitespace(CharAt(s, i))
       THEN (IF Len(word) > 3 THEN <<word>> ELSE <<>>) \o LongWordsFrom(s, i + 1, "")
       ELSE LongWordsFrom(s, i + 1, word \o CharAt(s, i))

LongWords(s) == LongWordsFrom(ToLowerCase(s), 1, "")

\* similarity > 0.6 ; 0 / 0 is NaN, which is not > 0.6
Similar(currentMessage, previous) ==
  LET currentWords == LongWords(currentMessage)
      prevWords == LongWords(previous)
      commonWords == Cardinality({k \in 1..Len(currentWords) : \E j \in 1..Len(prevWords) : prevWords[j] = currentWords[k]})
      longest == IF Len(currentWords) >= Len(prevWords) THEN Len(currentWords) ELSE Len(prevWords)
  IN  longest > 0 /\ 10 * commonWords > 6 * longest

\* the assistant message that followed the latest similar user message, or
\* Undefined (null)
checkIfAlreadyAnswered(conversationHistory, currentMessage) ==
  LET found == {i \in 2..(Len(conversationHistory) - 1) :
                  /\ conversationHistory[i].role = "user"
                  /\ Similar(currentMessage, conversationHistory[i].content)
                  /\ conversationHistory[i + 1].role = "assistant"}
  IN  IF found = {} THEN Undefined
      ELSE conversationHistory[(CHOOSE i \in found : \A j \in found : j <= i) + 1].content

\* what classifyIssue may return: a category of the enumeration and a
\* confidence; parseClassificationResponse answers OTHER at 0.3 for a reply
\* it cannot read
Classifications ==
  {[category |-> "ORDER_STATUS", confidence |-> 90],
   [category |-> "OTHER", confidence |-> 90],
   [category |-> "OTHER", confidence |-> 30]}

\* the `action` of determineNextAction's result: the model's reply decides it
NextActions == {"ask_question", "provide_solution", "escalate", "out_of_scope", "none"}

(***************************************************************************)
(* Chat routes.  A request in flight is a record of `requests`; `pc` is   *)
(* the adapter call it is suspended on.  `output` is the last response    *)
(* sent, with the request it answers.                                     *)
(***************************************************************************)
MaxSessions == 1
MaxInFlight == 1
MaxHistory == 6
MaxTicks == 1
TickMs == 2000000

SessionId(n) == "s" \o ToString(n)
SessionIds == {SessionId(n) : n \in 1..MaxSessions}
Messages == {"yes", "not a number"}
InitialMessages == {"", "where is my order"}

Request(kind, sessionId, mode, message, pc) ==
  [kind |-> kind, sessionId |-> sessionId, mode |-> mode, message |-> message, pc |-> pc]

NoRequest == Request(Undefined, Undefined, Undefined, Undefined, Undefined)

Response(request, status, error, message, questionId, resolution, requiresEscalation) ==
  [request |-> request, status |-> status, error |-> error, message |-> message,
   questionId |-> questionId, resolution |-> resolution, requiresEscalation |-> requiresEscalation]

Ok(request, message, questionId) == Response(request, 200, Undefined, message, questionId, NoResolution, FALSE)
Failed(request, status, error) == Response(request, status, error, Undefined, Undefined, NoResolution, FALSE)

NoResponse == Response(NoRequest, 0, Undefined, Undefined, Undefined, NoResolution, FALSE)

RemoveAt(seq, i) == SubSeq(seq, 1, i - 1) \o SubSeq(seq, i + 1, Len(seq))

\* the store before any request
StoreInit ==
  /\ sessions = <<>>
  /\ keyOrder = <<>>
  /\ created = 0
  /\ now = 0
  /\ requests = <<>>

Init ==
  /\ StoreInit
  /\ input = <<>>
  /\ output = NoResponse

\* a handler's segment leaves the store `store`, the requests `reqs` and, when
\* it answers, the response `resp`
Leave(store, reqs) ==
  /\ sessions' = store.sessions
  /\ keyOrder' = store.keyOrder
  /\ requests' = reqs
  /\ UNCHANGED <<now, input>>

\* POST /start up to `await generateGreeting`
StartReceive ==
  \E mode \in ConversationMode \cup {"GUIDED"}, initialMessage \in InitialMessages :
    LET request == Request("start", Undefined, mode, initialMessage, "greeting")
    IN  IF mode \notin ConversationMode
        THEN /\ output' = Failed(request, 400, "Invalid conversation mode")
             /\ UNCHANGED <<storeVars, input>>
        ELSE /\ created < MaxSessions
             /\ Len(requests) < MaxInFlight
             /\ created' = created + 1
             /\ Leave(createSession(Store, SessionId(created + 1), mode, initialMessage, now),
                      Append(requests, [request EXCEPT !.sessionId = SessionId(created + 1)]))
             /\ UNCHANGED output

\* POST /start from the greeting to the next adapter call or the response
StartGreeted ==
  \E i \in 1..Len(requests) :
    LET request == requests[i]
        store == addMessage(Store, request.sessionId, "assistant", Phrase("greeting"), now)
    IN  /\ request.kind = "start" /\ request.pc = "greeting"
        /\ UNCHANGED created
        /\ IF request.mode = "SYSTEM_INITIATED"
           THEN Leave(store, [requests EXCEPT ![i].pc = "options"]) /\ UNCHANGED output
           ELSE IF request.message # ""
           THEN Leave(store, [requests EXCEPT ![i].pc = "intelligent"]) /\ UNCHANGED output
           ELSE /\ Leave(store, RemoveAt(requests, i))
                /\ output' = Ok(request, Phrase("greeting"), Undefined)

\* POST /start, SYSTEM_INITIATED, after `await generateCategoryOptions`
StartOptions ==
  \E i \in 1..Len(requests) :
    LET request == requests[i]
    IN  /\ request.kind = "start" /\ request.pc = "options"
        /\ UNCHANGED created
        /\ Leave(addMessage(Store, request.sessionId, "assistant", Phrase("category options"), now),
                 RemoveAt(requests, i))
        /\ output' = Ok(request, Phrase("greeting") \o "\n\n" \o Phrase("category options"), "category_selection")

\* POST /start, USER_INITIATED, after `await generateIntelligentResponse`
StartIntelligent ==
  \E i \in 1..Len(requests) :
    LET request == requests[i]
    IN  /\ request.kind = "start" /\ request.pc = "intelligent"
        /\ Leave(addMessage(Store, request.sessionId, "assistant", Phrase("intelligent response"), now),
                 [requests EXCEPT ![i].pc = "classify"])
        /\ UNCHANGED <<created, output>>

\* POST /start, USER_INITIATED, after `await classifyIssue`; shouldProvideOptions
\* reads the generated text, so whether options are offered is the
\* environment's choice
StartClassified ==
  \E i \in 1..Len(requests) : \E classification \in Classifications, offer \in BOOLEAN :
    LET request == requests[i]
    IN  /\ request.kind = "start" /\ request.pc = "classify"
        /\ UNCHANGED created
        /\ Leave(updateSession(Store, request.sessionId, classification.category, classification.confidence, now),
                 RemoveAt(requests, i))
        /\ output' = Ok(request, Phrase("greeting") \o "\n\n" \o Phrase("intelligent response"),
                        IF offer THEN "initial_question" ELSE Undefined)

\* POST /message up to the first adapter call
MessageReceive ==
  \E sessionId \in SessionIds \cup {""}, message \in Messages \cup {""} :
    LET request == Request("message", sessionId, Undefined, message, "received")
        stored == addMessage(Store, sessionId, "user", message, now)
        previousAnswer == checkIfAlreadyAnswered(stored.sessions[sessionId].conversationHistory, message)
    IN  /\ UNCHANGED created
        /\ IF sessionId = "" \/ message = ""
           THEN /\ output' = Failed(request, 400, "Session ID and message are required")
                /\ UNCHANGED <<storeVars, input>>
           ELSE IF ~Live(Store, sessionId, now)
           THEN /\ Leave(AfterGet(Store, sessionId, now), requests)
                /\ output' = Failed(request, 404, "SESSION_NOT_FOUND")
           ELSE /\ Len(sessions[sessionId].conversationHistory) < MaxHistory
                /\ IF previousAnswer # Undefined /\ previousAnswer # ""
                   THEN /\ Leave(addMessage(stored, sessionId, "assistant", previousAnswer, now), requests)
                        /\ output' = Ok(request, previousAnswer, Undefined)
                   ELSE /\ Len(requests) < MaxInFlight
                        /\ Leave(stored, Append(requests,
                                   [request EXCEPT !.pc = IF sessions[sessionId].category = Undefined
                                                          THEN "classify" ELSE "determine"]))
                        /\ UNCHANGED output

\* POST /message, session without category, after `await classifyIssue`
MessageClassified ==
  \E i \in 1..Len(requests) : \E classification \in Classifications :
    LET request == requests[i]
    IN  /\ request.kind = "message" /\ request.pc = "classify"
        /\ Leave(updateSession(Store, request.sessionId, classification.category, classification.confidence, now),
                 [requests EXCEPT ![i].pc = "intelligent"])
        /\ UNCHANGED <<created, output>>

\* POST /message, session without category, after `await generateIntelligentResponse`
MessageIntelligent ==
  \E i \in 1..Len(requests) : \E offer \in BOOLEAN :
    LET request == requests[i]
    IN  /\ request.kind = "message" /\ request.pc = "intelligent"
        /\ UNCHANGED created
        /\ Leave(addMessage(Store, request.sessionId, "assistant", Phrase("intelligent response"), now),
                 RemoveAt(requests, i))
        /\ output' = Ok(request, Phrase("intelligent response"), IF offer THEN "dynamic_question_1" ELSE Undefined)

\* POST /message, session with category, after `await determineNextAction`
MessageDetermined ==
  \E i \in 1..Len(requests) : \E action \in NextActions, offer \in BOOLEAN :
    LET request == requests[i]
        ticketNumber == "TKT-" \o ToString(now)
        escalationMessage == Phrase("next action response") \o "\n\nI've created ticket #" \o ticketNumber
                             \o " for our support team. They'll contact you within 24 hours via email."
        escalationResolution ==
          Resolution("ESCALATE_AGENT", escalationMessage, FALSE, <<>>,
                     [team |-> "Customer Support Team", priority |-> "medium",
                      estimatedResponseTime |-> "24 hours", ticketNumber |-> ticketNumber],
                     ticketNumber)
    IN  /\ request.kind = "message" /\ request.pc = "determine"
        /\ UNCHANGED created
        /\ CASE action = "ask_question" ->
                  /\ Leave(addMessage(Store, request.sessionId, "assistant", Phrase("next action response"), now),
                           RemoveAt(requests, i))
                  /\ output' = Ok(request, Phrase("next action response"),
                                  IF offer THEN "dynamic_question_" \o ToString(now) ELSE Undefined)
             [] action = "provide_solution" ->
                  /\ ~offer
                  /\ Leave(Store, [requests EXCEPT ![i].pc = "solution"])
                  /\ UNCHANGED output
             [] action = "escalate" ->
                  /\ ~offer
                  /\ Leave(markSessionResolved(
                             addMessage(Store, request.sessionId, "assistant", escalationMessage, now),
                             request.sessionId, escalationResolution, now),
                           RemoveAt(requests, i))
                  /\ output' = Response(request, 200, Undefined, escalationMessage, Undefined,
                                        escalationResolution, TRUE)
             [] action = "out_of_scope" ->
                  /\ ~offer
                  /\ Leave(Store, [requests EXCEPT ![i].pc = "out_of_scope"])
                  /\ UNCHANGED output
             [] OTHER ->
                  /\ ~offer
                  /\ Leave(Store, RemoveAt(requests, i))
                  /\ output' = Ok(request, "", Undefined)

\* POST /message after `await generateSolution`
MessageSolution ==
  \E i \in 1..Len(requests) :
    LET request == requests[i]
        resolution == Resolution("INFORMATION_PROVIDED", Phrase("solution"), FALSE, <<>>,
                                 NoEscalationDetails, Undefined)
    IN  /\ request.kind = "message" /\ request.pc = "solution"
        /\ UNCHANGED created
        /\ Leave(markSessionResolved(
                   addMessage(Store, request.sessionId, "assistant", Phrase("solution"), now),
                   request.sessionId, resolution, now),
                 RemoveAt(requests, i))
        /\ output' = Response(request, 200, Undefined, Phrase("solution"), Undefined, resolution, FALSE)

\* POST /message after `await handleOutOfScope`
MessageOutOfScope ==
  \E i \in 1..Len(requests) :
    LET request == requests[i]
    IN  /\ request.kind = "message" /\ request.pc = "out_of_scope"
        /\ UNCHANGED created
        /\ Leave(addMessage(Store, request.sessionId, "assistant", Phrase("out of scope response"), now),
                 RemoveAt(requests, i))
        /\ output' = Ok(request, Phrase("out of scope response"), Undefined)

\* GET /session/:sessionId
GetSessionRequest ==
  \E sessionId \in SessionIds :
    LET request == Request("session", sessionId, Undefined, Undefined, "received")
    IN  /\ UNCHANGED created
        /\ Leave(AfterGet(Store, sessionId, now), requests)
        /\ output' = IF Live(Store, sessionId, now)
                     THEN Ok(request, Undefined, Undefined)
                     ELSE Failed(request, 404, "SESSION_NOT_FOUND")

\* the interval timer of initializeSessionService
CleanupTimer ==
  /\ Leave(cleanupExpiredSessions(Store, now), requests)
  /\ UNCHANGED <<created, output>>

\* time passes
Tick ==
  /\ now < MaxTicks * TickMs
  /\ now' = now + TickMs
  /\ UNCHANGED <<sessions, keyOrder, created, requests, input, output>>

Next ==
  \/ StartReceive \/ StartGreeted \/ StartOptions \/ StartIntelligent \/ StartClassified
  \/ MessageReceive \/ MessageClassified \/ MessageIntelligent \/ MessageDetermined
  \/ MessageSolution \/ MessageOutOfScope
  \/ GetSessionRequest \/ CleanupTimer \/ Tick

Spec == Init /\ [][Next]_vars

\* CONFIDENCE_THRESHOLDS.HIGH, in hundredths
CONFIDENCE_HIGH == 80

\* the conversation is in the tree of its category: classified with high
\* confidence and not resolved
AwaitingAnswer(session) ==
  session.category # Undefined /\ session.confidence >= CONFIDENCE_HIGH /\ ~session.resolved

\* the question an answer is taken for: the session's current question, the
\* root of the category's tree while none is stored
PendingQuestion(session) ==
  IF session.currentQuestionId # Undefined
  THEN getQuestion(session.category, session.currentQuestionId)
  ELSE getFirstQuestion(session.category)

\* this step sends the success response to a /message request that was not
\* taken for the text to classify
MessageAnswered ==
  /\ output' # output
  /\ output'.request.kind = "message"
  /\ output'.request.pc # "intelligent"
  /\ output'.status = 200

ValidAnswerStep ==
  LET sessionId == output'.request.sessionId
      session == sessions[sessionId]
      question == PendingQuestion(session)
      answer == parseUserAnswer(question, output'.request.message)
      nextQuestionId == getNextQuestionId(session.category, question.id, answer)
  IN  (/\ MessageAnswered
       /\ sessionId \in DOMAIN sessions
       /\ AwaitingAnswer(session)
       /\ validateAnswer(question, output'.request.message).valid)
      => /\ sessionId \in DOMAIN sessions'
         /\ question.id \in DOMAIN sessions'[sessionId].answers
         /\ sessions'[sessionId].answers[question.id] = answer
         /\ IF nextQuestionId # Undefined
            THEN sessions'[sessionId].currentQuestionId = nextQuestionId /\ ~sessions'[sessionId].resolved
            ELSE /\ sessions'[sessionId].resolved
                 /\ sessions'[sessionId].resolution.type
                      = findResolution(session.category, sessions'[sessionId].answers, now, 0, "").type

\* C1: a valid answer to the pending question is recorded, normalised, under
\* that question's id; the session then moves to the question the
\* nextQuestionMap gives for it and stays unresolved, or, when the map has no
\* entry, becomes resolved with the resolution matched from its answers.
C1_ValidAnswerAdvances == [][ValidAnswerStep]_vars

InvalidAnswerStep ==
  LET sessionId == output'.request.sessionId
      session == sessions[sessionId]
      question == PendingQuestion(session)
      validation == validateAnswer(question, output'.request.message)
  IN  (/\ MessageAnswered
       /\ sessionId \in DOMAIN sessions
       /\ AwaitingAnswer(session)
       /\ ~validation.valid)
      => /\ sessionId \in DOMAIN sessions'
         /\ sessions'[sessionId].answers = session.answers
         /\ sessions'[sessionId].currentQuestionId = session.currentQuestionId
         /\ ~sessions'[sessionId].resolved
         /\ output'.questionId = question.id
         /\ Includes(output'.message, validation.error)

\* C2: an answer that fails validation gets the same question again with the
\* failing rule's message, and leaves the answers map and the pending
\* question as they were; "not a number" against ^ORD-[0-9]{5}$ is invalid
\* with that rule's message.
C2_InvalidAnswerReposes ==
  [][/\ validateAnswer(ORDER_STATUS_TREE.questions["order_status_2"], "not a number")
          = Invalid("Order number must be in format ORD-XXXXX")
     /\ InvalidAnswerStep]_vars

\* C3: once a session is resolved, no later step changes its resolution or
\* makes it unresolved; no second resolution or ticket is stored for it.
C3_ResolutionImmutable ==
  [][\A sessionId \in DOMAIN sessions :
        (sessions[sessionId].resolved /\ sessionId \in DOMAIN sessions')
        => /\ sessions'[sessionId].resolved
           /\ sessions'[sessionId].resolution = sessions[sessionId].resolution]_vars

(***************************************************************************)
(* SpecMatch: findResolution applied to a category and an answers map.    *)
(***************************************************************************)
MaxRecorded == 3
MaxRandom == 1

RandomValues == 0..MaxRandom
UuidPrefixes == {"1a2b3c4d", "9f8e7d6c"}

\* question ids the category's conditions refer to
ConditionQuestionIds(category) ==
  UNION {{RESOLUTION_PATHS[category][i].conditions[j].questionId :
            j \in 1..Len(RESOLUTION_PATHS[category][i].conditions)} :
         i \in 1..Len(RESOLUTION_PATHS[category])}

ExpectedStrings(expected) == IF expected.isArray THEN {expected.arr[k] : k \in 1..Len(expected.arr)} ELSE {expected.str}

\* every expected answer of the category's conditions, an answer that no
\* condition expects, and the empty string
AnswerValues(category) ==
  UNION {UNION {ExpectedStrings(RESOLUTION_PATHS[category][i].conditions[j].expectedAnswer) :
                  j \in 1..Len(RESOLUTION_PATHS[category][i].conditions)} :
         i \in 1..Len(RESOLUTION_PATHS[category])}
  \cup {"", "something else"}

AnswerMaps(category) ==
  UNION {[D -> AnswerValues(category)] :
           D \in {D \in SUBSET ConditionQuestionIds(category) : Cardinality(D) <= MaxRecorded}}

NoMatchOutput == [called |-> FALSE, path |-> NoPath, resolution |-> NoResolution]

InitMatch ==
  /\ StoreInit
  /\ \E category \in IssueCategory : \E answers \in AnswerMaps(category) :
        input = [category |-> category, answers |-> answers]
  /\ output = NoMatchOutput

FindResolutionCall ==
  /\ ~output.called
  /\ \E rnd \in RandomValues, uuid \in UuidPrefixes :
        output' = [called |-> TRUE,
                   path |-> findMatchingResolution(input.category, input.answers),
                   resolution |-> findResolution(input.category, input.answers, now, rnd, uuid)]
  /\ UNCHANGED <<input, storeVars>>

NextMatch == FindResolutionCall

SpecMatch == InitMatch /\ [][NextMatch]_vars

\* claim-level reading of a condition: the recorded answer is a non-empty
\* string that meets the operator
Meets(condition, answers) ==
  /\ condition.questionId \in DOMAIN answers
  /\ answers[condition.questionId] # ""
  /\ \/ condition.operator = "equals" /\ ~condition.expectedAnswer.isArray
          /\ answers[condition.questionId] = condition.expectedAnswer.str
     \/ condition.operator = "contains" /\ ~condition.expectedAnswer.isArray
          /\ Includes(answers[condition.questionId], condition.expectedAnswer.str)
     \/ condition.operator = "in" /\ condition.expectedAnswer.isArray
          /\ answers[condition.questionId] \in ExpectedStrings(condition.expectedAnswer)

FullySatisfied(path, answers) == \A j \in 1..Len(path.conditions) : Meets(path.conditions[j], answers)

LastPath(category) == RESOLUTION_PATHS[category][Len(RESOLUTION_PATHS[category])]

NoPathSatisfied(category, answers) ==
  \A i \in 1..Len(RESOLUTION_PATHS[category]) : ~FullySatisfied(RESOLUTION_PATHS[category][i], answers)

\* C5: every category's path list ends with a zero-condition path, so the
\* path returned as fallback has all its conditions satisfied by the answers.
C5_LastPathUniversal ==
  output.called =>
    /\ Len(LastPath(input.category).conditions) = 0
    /\ FullySatisfied(output.path, input.answers)

\* C6: when no path is fully satisfied by the answers, the resolution
\* produced is an escalation.
C6_FallbackEscalates ==
  (output.called /\ NoPathSatisfied(input.category, input.answers)) =>
    output.resolution.type \in {"ESCALATE_AGENT", "ESCALATE_SPECIALIST"}

(***************************************************************************)
(* SpecCond: checkConditions applied to one condition and an answers map, *)
(* and findMatchingResolution's loop applied to a two-path list whose     *)
(* first path carries that condition and whose second path has none.      *)
(***************************************************************************)
CondQuestionIds == {"q1", "q2"}
CondOperators == {"equals", "contains", "in", "greaterThan", "lessThan"}
CondAnswers == {"", "5", "15", "yes"}
CondExpected == {Str(""), Str("5"), Str("yes"), Arr(<<>>), Arr(<<"5", "yes">>)}

CondAnswerMaps == UNION {[D -> CondAnswers] : D \in SUBSET CondQuestionIds}

GatedPath(condition) == Path("gated", "OTHER", "SELF_SERVICE", <<condition>>, <<"step">>, "", "")
OpenPath == Path("open", "OTHER", "ESCALATE_AGENT", <<>>, <<>>, "", "")

NoCondOutput == [called |-> FALSE, result |-> FALSE, selected |-> Undefined]

InitCond ==
  /\ StoreInit
  /\ \E q \in CondQuestionIds, op \in CondOperators, e \in CondExpected, answers \in CondAnswerMaps :
        input = [condition |-> Cond(q, e, op), answers |-> answers]
  /\ output = NoCondOutput

CheckConditionsCall ==
  /\ ~output.called
  /\ output' = [called |-> TRUE,
                result |-> checkConditions(<<input.condition>>, input.answers),
                selected |-> FindMatchingIn(<<GatedPath(input.condition), OpenPath>>, input.answers).id]
  /\ UNCHANGED <<input, storeVars>>

NextCond == CheckConditionsCall

SpecCond == InitCond /\ [][NextCond]_vars

\* the expected value has the type the operator compares against
WellTyped(condition) ==
  \/ condition.operator \in {"equals", "contains"} /\ ~condition.expectedAnswer.isArray
  \/ condition.operator = "in" /\ condition.expectedAnswer.isArray

\* the operator's comparison as the claim words it
OperatorHolds(condition, answer) ==
  \/ condition.operator = "equals" /\ ~condition.expectedAnswer.isArray /\ answer = condition.expectedAnswer.str
  \/ condition.operator = "contains" /\ ~condition.expectedAnswer.isArray /\ Includes(answer, condition.expectedAnswer.str)
  \/ condition.operator = "in" /\ condition.expectedAnswer.isArray /\ answer \in ExpectedStrings(condition.expectedAnswer)

\* C7 (as claimed): for equals, contains and one-of, a condition is satisfied
\* iff the answers map holds an answer for its question id and that answer
\* meets the operator.
C7_SatisfiedIffAnswered ==
  (output.called /\ input.condition.operator \in {"equals", "contains", "in"}) =>
    (output.result <=> /\ input.condition.questionId \in DOMAIN input.answers
                       /\ OperatorHolds(input.condition, input.answers[input.condition.questionId]))

\* C7 (amended): a condition whose expected value has the type its operator
\* compares against is satisfied iff the answers map holds a non-empty answer
\* for its question id and that answer meets the operator; a contains
\* condition with a list and a one-of condition with a single string are
\* satisfied by every non-empty answer; without a non-empty answer no
\* condition is satisfied, whatever its operator.
C7_SatisfiedIffNonEmptyAnswer ==
  output.called =>
    LET c == input.condition
        answered == c.questionId \in DOMAIN input.answers /\ input.answers[c.questionId] # ""
    IN  /\ ~answered => ~output.result
        /\ (answered /\ WellTyped(c)) => (output.result <=> OperatorHolds(c, input.answers[c.questionId]))
        /\ (answered /\ ~WellTyped(c) /\ c.operator \in {"contains", "in"}) => output.result
        /\ (answered /\ ~WellTyped(c) /\ c.operator = "equals") => ~output.result

C7_Witness ==
  /\ output.called
  /\ input.condition.operator = "contains"
  /\ input.condition.questionId \in DOMAIN input.answers
  /\ input.answers[input.condition.questionId] = "15"
  /\ input.condition.expectedAnswer = Str("5")
  /\ output.result

\* C8: a greaterThan or lessThan condition fails, and a path that contains
\* one is never selected as a full match.
C8_NumericOperatorsFail ==
  (output.called /\ input.condition.operator \in {"greaterThan", "lessThan"}) =>
    (~output.result /\ output.selected # "gated")

(***************************************************************************)
(* SpecWalk: a conversation that follows a category's question tree from  *)
(* its root: each answer is normalised by parseUserAnswer, recorded, and  *)
(* getNextQuestion picks the question that follows.                       *)
(***************************************************************************)
MaxWalk == 6

\* what a user may type at a question: each option, each option's number,
\* spellings of yes and no, an order number, an email address, free text
\* short and long, and the name of a member every object inherits
RawAnswers(question) ==
  {question.options[k] : k \in 1..Len(question.options)}
  \cup {ToString(k) : k \in 1..Len(question.options)}
  \cup {"yes", " No ", "Y", "ord-12345", "user@example.com", "something else",
        "the parcel never arrived", "constructor"}

NoWalkOutput ==
  [started |-> FALSE, done |-> FALSE, current |-> Undefined, visited |-> <<>>,
   answers |-> <<>>, notFound |-> FALSE, proceed |-> FALSE,
   resolved |-> FALSE, path |-> NoPath, resolution |-> NoResolution]

InitWalk ==
  /\ StoreInit
  /\ \E category \in IssueCategory : input = [category |-> category]
  /\ output = NoWalkOutput

StartWalk ==
  /\ ~output.started
  /\ output' = [output EXCEPT !.started = TRUE,
                              !.current = getFirstQuestion(input.category).id,
                              !.visited = <<getFirstQuestion(input.category).id>>]
  /\ UNCHANGED <<input, storeVars>>

AnswerQuestion ==
  /\ output.started /\ ~output.done
  /\ Len(output.visited) < MaxWalk
  /\ LET question == getQuestion(input.category, output.current)
     IN  \E raw \in RawAnswers(question) :
           LET answer == parseUserAnswer(question, raw)
               next == getNextQuestion(input.category, question.id, answer)
               recorded == (question.id :> answer) @@ output.answers
               session == [category |-> input.category, answers |-> recorded]
           IN  /\ validateAnswer(question, answer).valid
               /\ output' =
                    IF next = UndefinedQuestion
                    THEN [output EXCEPT !.done = TRUE, !.answers = recorded,
                                        !.notFound = NextQuestionNotFound(input.category, question.id, answer),
                                        !.proceed = shouldProceedToResolution(session, question, answer)]
                    ELSE [output EXCEPT !.current = next.id, !.answers = recorded,
                                        !.visited = Append(output.visited, next.id)]
  /\ UNCHANGED <<input, storeVars>>

\* the tree is exhausted: findResolution is applied to the answers collected
ResolveWalk ==
  /\ output.done /\ ~output.resolved
  /\ \E rnd \in RandomValues, uuid \in UuidPrefixes :
        output' = [output EXCEPT !.resolved = TRUE,
                                 !.path = findMatchingResolution(input.category, output.answers),
                                 !.resolution = findResolution(input.category, output.answers, now, rnd, uuid)]
  /\ UNCHANGED <<input, storeVars>>

NextWalk == StartWalk \/ AnswerQuestion \/ ResolveWalk

SpecWalk == InitWalk /\ [][NextWalk]_vars

\* number of questions on the longest chain of nextQuestionMap entries from
\* a question, followed for at most `fuel` questions
RECURSIVE ChainLength(_, _, _)
ChainLength(tree, questionId, fuel) ==
  IF fuel = 0 \/ questionId \notin DOMAIN tree.questions THEN 0
  ELSE LET map == tree.questions[questionId].nextQuestionMap
           below == {ChainLength(tree, map[a], fuel - 1) : a \in DOMAIN map}
       IN  1 + (IF below = {} THEN 0 ELSE CHOOSE n \in below : \A m \in below : m <= n)

LongestPath(category) ==
  ChainLength(QUESTION_TREES[category], QUESTION_TREES[category].rootQuestionId,
              Cardinality(DOMAIN QUESTION_TREES[category].questions))

\* C9: a walk from the root that follows getNextQuestionId visits no
\* question twice and visits at most as many questions as the longest
\* root-to-leaf path of the tree has, so it ends.
C9_WalkIsFinite ==
  output.started =>
    /\ \A i, j \in 1..Len(output.visited) : output.visited[i] = output.visited[j] => i = j
    /\ Len(output.visited) <= LongestPath(input.category)
    /\ Len(output.visited) < MaxWalk

C9_Witness ==
  /\ output.done
  /\ input.category = "DELIVERY_PROBLEM"
  /\ output.visited = <<"delivery_1", "delivery_3", "delivery_3b">>

\* C10: each tree's root id and every nextQuestionMap target is a question
\* of that tree, so getNextQuestion is never left with an id that names no
\* question.
C10_NoDanglingId ==
  /\ \A category \in IssueCategory :
        LET tree == QUESTION_TREES[category]
        IN  /\ tree.rootQuestionId \in DOMAIN tree.questions
            /\ \A q \in DOMAIN tree.questions : \A a \in DOMAIN tree.questions[q].nextQuestionMap :
                  tree.questions[q].nextQuestionMap[a] \in DOMAIN tree.questions
  /\ output.started => ~output.notFound

(***************************************************************************)
(* SpecStore: the exported operations of the session service called one   *)
(* after another on a store that already serves sessions.  `input` is the *)
(* latest call, numbered, and `output` is what it returned.               *)
(***************************************************************************)
MaxCalls == 3
MaxStoreTicks == 3

\* time advances by half the time-to-live, so an idle session is seen at
\* the time-to-live exactly and beyond it
StoreTickMs == TIMEOUT_MS \div 2

\* sessions the store holds at the start, messages the first of them holds
FewSessions == 2
Populations == {0, FewSessions}
Prefills == {0, MAX_MESSAGES - 1}

\* ids the calls are made with: one that is never issued and the first issued
TargetIds == {SessionId(0), SessionId(1)}

\* the store after createSession was called n times at time 0 and addMessage
\* h times on the first session
Populated(n, h) ==
  [sessions |-> [id \in {SessionId(i) : i \in 1..n} |->
                   IF id = SessionId(1)
                   THEN [ConversationSession(id, "SYSTEM_INITIATED", 0) EXCEPT
                           !.conversationHistory = [i \in 1..h |-> Message("user", "m" \o ToString(i), 0)]]
                   ELSE ConversationSession(id, "SYSTEM_INITIATED", 0)],
   keyOrder |-> [i \in 1..n |-> SessionId(i)]]

\* `undefined` where a session is expected
NoSession == ConversationSession(Undefined, Undefined, 0)

StoreCall(seq, op, sessionId) == [seq |-> seq, op |-> op, sessionId |-> sessionId]

StoreResult(found, session, all, count, at) ==
  [found |-> found, session |-> session, all |-> all, count |-> count, at |-> at]

NoStoreResult == StoreResult(FALSE, NoSession, <<>>, 0, 0)

\* what an operation that goes through getSession returns
Found(store, sessionId) ==
  IF sessionId \in DOMAIN store.sessions
  THEN StoreResult(TRUE, store.sessions[sessionId], <<>>, 0, now)
  ELSE StoreResult(FALSE, NoSession, <<>>, 0, now)

InitStore ==
  /\ \E n \in Populations, h \in Prefills :
        /\ n = 0 => h = 0
        /\ sessions = Populated(n, h).sessions
        /\ keyOrder = Populated(n, h).keyOrder
        /\ created = n
  /\ now = 0
  /\ requests = <<>>
  /\ input = StoreCall(0, "none", Undefined)
  /\ output = NoStoreResult

\* a call of `op` that leaves the store `store` and returns `result`
Called(op, sessionId, store, result) ==
  /\ input.seq < MaxCalls
  /\ input' = StoreCall(input.seq + 1, op, sessionId)
  /\ sessions' = store.sessions
  /\ keyOrder' = store.keyOrder
  /\ output' = result
  /\ UNCHANGED <<now, requests>>

CreateSessionCall ==
  LET sessionId == SessionId(created + 1)
      store == createSession(Store, sessionId, "SYSTEM_INITIATED", "", now)
  IN  /\ Called("createSession", sessionId, store, StoreResult(TRUE, store.sessions[sessionId], <<>>, 0, now))
      /\ created' = created + 1

GetSessionCall ==
  \E sessionId \in TargetIds :
    /\ Called("getSession", sessionId, AfterGet(Store, sessionId, now),
              IF Live(Store, sessionId, now) THEN Found(Store, sessionId)
              ELSE StoreResult(FALSE, NoSession, <<>>, 0, now))
    /\ UNCHANGED created

\* an operation that starts with getSession returns the session it stored,
\* or undefined
ThroughGet(op, sessionId, store) ==
  /\ Called(op, sessionId, store,
            IF Live(Store, sessionId, now) THEN Found(store, sessionId)
            ELSE StoreResult(FALSE, NoSession, <<>>, 0, now))
  /\ UNCHANGED created

UpdateSessionCall ==
  \E sessionId \in TargetIds :
    ThroughGet("updateSession", sessionId, updateSession(Store, sessionId, "ORDER_STATUS", 90, now))

AddMessageCall ==
  \E sessionId \in TargetIds :
    ThroughGet("addMessage", sessionId,
               addMessage(Store, sessionId, "user", "n" \o ToString(input.seq + 1), now))

AddAnswerCall ==
  \E sessionId \in TargetIds :
    ThroughGet("addAnswer", sessionId, addAnswer(Store, sessionId, "order_status_1", "yes", now))

MarkSessionResolvedCall ==
  \E sessionId \in TargetIds :
    ThroughGet("markSessionResolved", sessionId,
               markSessionResolved(Store, sessionId,
                                   Resolution("SELF_SERVICE", "resolved", FALSE, <<>>, NoEscalationDetails, Undefined),
                                   now))

DeleteSessionCall ==
  \E sessionId \in TargetIds :
    /\ Called("deleteSession", sessionId, deleteSession(Store, sessionId),
              StoreResult(sessionId \in DOMAIN sessions, NoSession, <<>>, 0, now))
    /\ UNCHANGED created

GetSessionCountCall ==
  /\ Called("getSessionCount", Undefined, Store, StoreResult(FALSE, NoSession, <<>>, getSessionCount(Store), now))
  /\ UNCHANGED created

GetAllSessionsCall ==
  /\ Called("getAllSessions", Undefined, Store, StoreResult(FALSE, NoSession, getAllSessions(Store), 0, now))
  /\ UNCHANGED created

\* the interval timer calls cleanupExpiredSessions: no caller's call, it is
\* not numbered and returns nothing
CleanupExpiredSessionsCall ==
  /\ sessions' = cleanupExpiredSessions(Store, now).sessions
  /\ keyOrder' = cleanupExpiredSessions(Store, now).keyOrder
  /\ UNCHANGED <<created, now, requests, input, output>>

StoreTick ==
  /\ now < MaxStoreTicks * StoreTickMs
  /\ now' = now + StoreTickMs
  /\ UNCHANGED <<sessions, keyOrder, created, requests, input, output>>

NextStore ==
  \/ CreateSessionCall \/ GetSessionCall \/ UpdateSessionCall \/ AddMessageCall
  \/ AddAnswerCall \/ MarkSessionResolvedCall \/ DeleteSessionCall
  \/ GetSessionCountCall \/ GetAllSessionsCall \/ CleanupExpiredSessionsCall
  \/ StoreTick

SpecStore == InitStore /\ [][NextStore]_vars

(***************************************************************************)
(* SpecCapacity: the store one session short of MAX_ACTIVE_SESSIONS, and  *)
(* the calls that admit sessions and that make a session active.          *)
(***************************************************************************)
InitCapacity ==
  /\ sessions = Populated(MAX_ACTIVE_SESSIONS - 1, 0).sessions
  /\ keyOrder = Populated(MAX_ACTIVE_SESSIONS - 1, 0).keyOrder
  /\ created = MAX_ACTIVE_SESSIONS - 1
  /\ now = 0
  /\ requests = <<>>
  /\ input = StoreCall(0, "none", Undefined)
  /\ output = NoStoreResult

NextCapacity == CreateSessionCall \/ GetSessionCall \/ AddMessageCall \/ StoreTick

SpecCapacity == InitCapacity /\ [][NextCapacity]_vars

\* this step is a call of `op`
CallOf(op) == input'.seq # input.seq /\ input'.op = op

\* the session's last activity is within the time-to-live of the time t
WithinTimeToLive(session, t) == t - session.updatedAt <= TIMEOUT_MS

\* C11: getSession returns the stored session when its last activity is
\* within the time-to-live of the current time and leaves it stored;
\* otherwise it reports absent and the session is no longer in the store,
\* though nothing deleted or swept it.
C11_GetSessionExpires ==
  [][CallOf("getSession") =>
       LET sessionId == input'.sessionId
       IN  IF sessionId \in DOMAIN sessions /\ WithinTimeToLive(sessions[sessionId], now)
           THEN /\ output'.found
                /\ output'.session = sessions[sessionId]
                /\ sessionId \in DOMAIN sessions'
           ELSE /\ ~output'.found
                /\ output'.session = NoSession
                /\ sessionId \notin DOMAIN sessions']_vars

\* the first call made is a getSession that finds the first session idle
\* for longer than the time-to-live
C11_Witness ==
  /\ input = StoreCall(1, "getSession", SessionId(1))
  /\ created = FewSessions
  /\ now > TIMEOUT_MS
  /\ ~output.found
  /\ SessionId(1) \notin DOMAIN sessions
  /\ SessionId(2) \in DOMAIN sessions

\* C12: no operation of the store returns a session whose last activity is
\* older than the time-to-live at the time of the call, neither as its
\* result nor in the list getAllSessions returns.
C12_NoExpiredExposed ==
  /\ output.session # NoSession => WithinTimeToLive(output.session, output.at)
  /\ \A i \in 1..Len(output.all) : WithinTimeToLive(output.all[i], output.at)

\* this step is a createSession on a store that holds MAX_ACTIVE_SESSIONS
CreateAtCapacity ==
  CallOf("createSession") /\ Cardinality(DOMAIN sessions) >= MAX_ACTIVE_SESSIONS

\* the sessions this step removes
Evicted == DOMAIN sessions \ DOMAIN sessions'

\* C13 as stated: createSession at capacity removes the stored session
\* with the oldest last activity, and the new session is stored.
C13_EvictsLeastRecentlyActive ==
  [][CreateAtCapacity =>
       /\ Cardinality(Evicted) = 1
       /\ \A e \in Evicted : \A k \in DOMAIN sessions : sessions[e].updatedAt <= sessions[k].updatedAt
       /\ input'.sessionId \in DOMAIN sessions']_vars

\* C13: createSession at capacity removes exactly the session that was
\* stored first among those held, the earliest created, whatever its last
\* activity; the other sessions stay as they were and the new session is
\* stored.
C13_EvictsFirstStored ==
  [][CreateAtCapacity =>
       /\ Evicted = {keyOrder[1]}
       /\ \A k \in DOMAIN sessions : sessions[keyOrder[1]].createdAt <= sessions[k].createdAt
       /\ \A k \in DOMAIN sessions \ Evicted : sessions'[k] = sessions[k]
       /\ input'.sessionId \in DOMAIN sessions'
       /\ keyOrder' = Append(Tail(keyOrder), input'.sessionId)]_vars

\* a second session was admitted at time 0 to the store at capacity: the
\* first session is gone though it cannot have expired
C13_Witness ==
  /\ input.op = "createSession"
  /\ created = MAX_ACTIVE_SESSIONS + 1
  /\ now = 0
  /\ SessionId(1) \notin DOMAIN sessions
  /\ SessionId(MAX_ACTIVE_SESSIONS + 1) \in DOMAIN sessions

\* C14: the store never holds more than MAX_ACTIVE_SESSIONS sessions, and
\* every createSession returns a session under an id the store did not
\* hold, which is stored as returned.
C14_NeverOverCapacity ==
  /\ [](Cardinality(DOMAIN sessions) <= MAX_ACTIVE_SESSIONS)
  /\ [][CallOf("createSession") =>
          /\ input'.sessionId \notin DOMAIN sessions
          /\ output'.found
          /\ output'.session.sessionId = input'.sessionId
          /\ input'.sessionId \in DOMAIN sessions'
          /\ sessions'[input'.sessionId] = output'.session]_vars

\* the store is full after two sessions were admitted to a store one short
\* of capacity
C14_Witness ==
  /\ input.op = "createSession"
  /\ created = MAX_ACTIVE_SESSIONS + 1
  /\ Cardinality(DOMAIN sessions) = MAX_ACTIVE_SESSIONS
  /\ output.session = sessions[SessionId(created)]

\* the last n entries of a sequence
LastEntries(seq, n) == SubSeq(seq, Len(seq) - n + 1, Len(seq))

\* C15: no history is ever longer than MAX_MESSAGES; an addMessage on a live
\* session puts the new message last, after a trailing window of the
\* history as it was: all of it below the cap, a shorter window of its most
\* recent entries, in their order, once the cap is reached.
C15_HistoryBounded ==
  /\ [](\A sessionId \in DOMAIN sessions :
          Len(sessions[sessionId].conversationHistory) <= MAX_MESSAGES)
  /\ [][(CallOf("addMessage") /\ output'.found) =>
          LET old == sessions[input'.sessionId].conversationHistory
              new == sessions'[input'.sessionId].conversationHistory
          IN  /\ Len(new) >= 1 /\ Len(new) <= Len(old) + 1
              /\ new[Len(new)] = Message("user", "n" \o ToString(input'.seq), now)
              /\ SubSeq(new, 1, Len(new) - 1) = LastEntries(old, Len(new) - 1)
              /\ IF Len(old) < MAX_MESSAGES THEN Len(new) = Len(old) + 1 ELSE Len(new) <= Len(old)]_vars

\* the history that had reached the cap was cut to its latest entries
\* before the new message was appended
C15_Witness ==
  /\ input.op = "addMessage"
  /\ SessionId(1) \in DOMAIN sessions
  /\ Len(sessions[SessionId(1)].conversationHistory) < MAX_MESSAGES - 1
  /\ Len(sessions[SessionId(1)].conversationHistory) > 1
  /\ sessions[SessionId(1)].conversationHistory[1].content = "m51"

\* the operations that begin with getSession, and getSession itself
LookupOperations == {"getSession", "updateSession", "addMessage", "addAnswer", "markSessionResolved"}

\* C16: a lookup operation called with an id that is unknown or expired
\* returns undefined, stores no session and changes no other session; the
\* expired session is removed and nothing else.
C16_NotFoundIsExplicit ==
  [][(/\ input'.seq # input.seq
      /\ input'.op \in LookupOperations
      /\ ~(input'.sessionId \in DOMAIN sessions /\ WithinTimeToLive(sessions[input'.sessionId], now)))
     => /\ ~output'.found
        /\ output'.session = NoSession
        /\ DOMAIN sessions' = DOMAIN sessions \ {input'.sessionId}
        /\ \A k \in DOMAIN sessions' : sessions'[k] = sessions[k]
        /\ keyOrder' = SelectSeq(keyOrder, LAMBDA k : k # input'.sessionId)
        /\ created' = created]_vars

\* addAnswer, the second call made, is refused for the first session, which
\* is no longer stored; the second session is as it was created
C16_Witness ==
  /\ input = StoreCall(2, "addAnswer", SessionId(1))
  /\ created = FewSessions
  /\ now > TIMEOUT_MS
  /\ ~output.found
  /\ SessionId(1) \notin DOMAIN sessions
  /\ SessionId(2) \in DOMAIN sessions
  /\ sessions[SessionId(2)] = ConversationSession(SessionId(2), "SYSTEM_INITIATED", 0)

\* this step sends the success response of a /start or /message request
SuccessResponse ==
  /\ output' # output
  /\ output'.status = 200
  /\ output'.request.kind \in {"start", "message"}

\* C17: a /start or /message request is answered with success only if its
\* session is still served when the response is sent, and a resolution it
\* reports is the one stored in the session; a session removed while the
\* request was suspended gives a not-found response.
C17_NoSuccessWithoutSession ==
  [][SuccessResponse =>
       LET sessionId == output'.request.sessionId
       IN  /\ sessionId \in DOMAIN sessions'
           /\ WithinTimeToLive(sessions'[sessionId], now)
           /\ output'.resolution # NoResolution => sessions'[sessionId].resolution = output'.resolution]_vars

\* the operations that change a session
UpdateOperations == {"updateSession", "addMessage", "addAnswer", "markSessionResolved"}

\* C19: updateSession, addMessage, addAnswer and markSessionResolved called
\* for one session id leave every other stored session in the store, with
\* every field as it was, and the order of the stored keys.
C19_OtherSessionsUnchanged ==
  [][(input'.seq # input.seq /\ input'.op \in UpdateOperations) =>
       /\ \A k \in DOMAIN sessions \ {input'.sessionId} :
             k \in DOMAIN sessions' /\ sessions'[k] = sessions[k]
       /\ DOMAIN sessions' \subseteq DOMAIN sessions
       /\ SelectSeq(keyOrder', LAMBDA k : k # input'.sessionId)
            = SelectSeq(keyOrder, LAMBDA k : k # input'.sessionId)]_vars

\* an answer was recorded for the first session half a time-to-live after
\* both sessions were created; the second session is as it was created
C19_Witness ==
  /\ input.op = "addAnswer"
  /\ input.sessionId = SessionId(1)
  /\ output.found
  /\ output.session.answers = ("order_status_1" :> "yes")
  /\ sessions[SessionId(1)].updatedAt = StoreTickMs
  /\ SessionId(2) \in DOMAIN sessions
  /\ sessions[SessionId(2)] = ConversationSession(SessionId(2), "SYSTEM_INITIATED", 0)

(***************************************************************************)
(* SpecSweep: the store with the interval timer that                      *)
(* initializeSessionService starts, and the calls that create a session,  *)
(* look one up and make one active; setInterval keeps calling             *)
(* cleanupExpiredSessions, so a sweep that would remove a session is not  *)
(* put off for ever.                                                      *)
(***************************************************************************)
NextSweep ==
  \/ CreateSessionCall \/ GetSessionCall \/ AddMessageCall
  \/ CleanupExpiredSessionsCall \/ StoreTick

SpecSweep == InitStore /\ [][NextSweep]_vars /\ WF_vars(CleanupExpiredSessionsCall)

\* C18: a session idle for longer than the time-to-live is eventually out of
\* the store, whether or not a call touches it again, and a sweep removes
\* exactly the sessions idle for longer than the time-to-live and leaves
\* the others as they are.
C18_SweepRemovesExpired ==
  /\ \A sessionId \in {SessionId(i) : i \in 1..(FewSessions + MaxCalls)} :
        (sessionId \in DOMAIN sessions /\ ~WithinTimeToLive(sessions[sessionId], now))
          ~> (sessionId \notin DOMAIN sessions)
  /\ [][CleanupExpiredSessionsCall =>
          /\ DOMAIN sessions' = {k \in DOMAIN sessions : WithinTimeToLive(sessions[k], now)}
          /\ \A k \in DOMAIN sessions' : sessions'[k] = sessions[k]
          /\ keyOrder' = SelectSeq(keyOrder, LAMBDA k : k \in DOMAIN sessions')]_vars

\* the second session was created after the first had been idle for the
\* time-to-live; no other call was made, and later the first session is gone
\* and the second, within its time-to-live, is stored: a sweep came between
C18_Witness ==
  /\ input = StoreCall(1, "createSession", SessionId(1 + FewSessions))
  /\ DOMAIN sessions = {SessionId(1 + FewSessions)}
  /\ sessions[SessionId(1 + FewSessions)].createdAt = TIMEOUT_MS
  /\ now > TIMEOUT_MS

\* C20: a getSession that finds the session leaves the store as it was, and
\* when the call before it was a getSession for the same id at the same
\* time, both return the same session data.
C20_GetSessionIdempotent ==
  [][(CallOf("getSession") /\ output'.found) =>
       /\ sessions' = sessions
       /\ keyOrder' = keyOrder
       /\ output'.session = sessions[input'.sessionId]
       /\ (input.op = "getSession" /\ input.sessionId = input'.sessionId /\ output.at = now)
            => output' = output]_vars

\* the third call is a getSession that finds the first session, untouched
\* since it was created with its history, at the end of its time-to-live
C20_Witness ==
  /\ input = StoreCall(3, "getSession", SessionId(1))
  /\ output.found
  /\ now = TIMEOUT_MS
  /\ output.session = Populated(FewSessions, MAX_MESSAGES - 1).sessions[SessionId(1)]
  /\ sessions = Populated(FewSessions, MAX_MESSAGES - 1).sessions

(***************************************************************************)
(* Answer handling as pure functions: a question and a typed answer are   *)
(* drawn, parseUserAnswer normalises the answer and validateAnswer judges *)
(* the answer it is given, in either order.                               *)
(***************************************************************************)
\* String.prototype.repeat
RECURSIVE Repeat(_, _)
Repeat(s, n) ==
  IF n = 0 THEN ""
  ELSE LET half == Repeat(s, n \div 2)
       IN  half \o half \o (IF n % 2 = 1 THEN s ELSE "")

RuleMaxLength(n, msg) == [type |-> "maxLength", valueType |-> "number", strValue |-> "", numValue |-> n, errorMessage |-> msg]

\* questions of the trees, one of each kind of rule list, and two further
\* questions a tree may declare: two rules that can fail together, and a
\* single-choice question without an option list
AnswerQuestions ==
  { getQuestion("ORDER_STATUS", "order_status_1"),
    getQuestion("ORDER_STATUS", "order_status_2"),
    getQuestion("DELIVERY_PROBLEM", "delivery_2"),
    getQuestion("DELIVERY_PROBLEM", "delivery_4"),
    Question("declared_1", "TEXT_INPUT", <<>>, FALSE, NoMap,
             <<RuleMinLength(10, "At least 10 characters"),
               RulePattern(ORDER_ID_PATTERN, "Must be in format ORD-XXXXX"),
               RuleMaxLength(12, "At most 12 characters")>>),
    Question("declared_2", "SINGLE_CHOICE", <<>>, FALSE, NoMap, <<>>) }

TypedAnswers ==
  { "", "   ", "YES", " y ", "True", "no", "N", "FALSE", "maybe", " maybe ",
    "0", "1", "3", " 2 ", "4", "02", "ord-12345", "ORD-12345", "ORD-12345-0001",
    "  broken  ", "box crushed",
    Repeat("a", MAX_TEXT_LENGTH), Repeat("a", MAX_TEXT_LENGTH + 1) }

InitAnswer ==
  /\ StoreInit
  /\ \E question \in AnswerQuestions : \E raw \in TypedAnswers :
        input = [question |-> question, raw |-> raw]
  /\ output = [answer |-> input.raw, normalized |-> FALSE,
               checked |-> FALSE, subject |-> "", validation |-> Valid]

ParseUserAnswerCall ==
  /\ ~output.normalized
  /\ output' = [output EXCEPT !.normalized = TRUE,
                              !.answer = parseUserAnswer(input.question, output.answer)]
  /\ UNCHANGED <<input, storeVars>>

\* `subject` keeps the answer that was judged
ValidateAnswerCall ==
  /\ ~output.checked
  /\ output' = [output EXCEPT !.checked = TRUE,
                              !.subject = output.answer,
                              !.validation = validateAnswer(input.question, output.answer)]
  /\ UNCHANGED <<input, storeVars>>

NextAnswer == ParseUserAnswerCall \/ ValidateAnswerCall

SpecAnswer == InitAnswer /\ [][NextAnswer]_vars

Blank(s) == \A i \in 1..Len(s) : IsWhitespace(CharAt(s, i))

RuleMessages(question) ==
  {question.validationRules[i].errorMessage : i \in 1..Len(question.validationRules)}

FailingRules(question, answer) ==
  {i \in 1..Len(question.validationRules) : ~validateRule(question.validationRules[i], answer).valid}

FirstOf(indices) == CHOOSE i \in indices : \A j \in indices : i <= j

\* C21: validateAnswer rejects a blank answer before any rule is consulted
\* (the error is none of the rules' messages), then an answer longer than
\* MAX_TEXT_LENGTH, then returns the message of the first failing rule in
\* declared order; the answer is valid exactly when none of these fails.
C21_ChecksInOrder ==
  output.checked =>
    LET question == input.question
        answer == output.subject
        result == output.validation
    IN  IF Blank(answer) \/ Len(answer) > MAX_TEXT_LENGTH
        THEN ~result.valid /\ result.error \notin RuleMessages(question)
        ELSE IF FailingRules(question, answer) # {}
        THEN /\ ~result.valid
             /\ result.error =
                  question.validationRules[FirstOf(FailingRules(question, answer))].errorMessage
        ELSE result = Valid

\* a judged answer that breaks two rules at once, one that is blank at a
\* question whose rules reject it too, and one that is too long
C21_Witness ==
  /\ output.checked
  /\ \/ Cardinality(FailingRules(input.question, output.subject)) > 1 /\ ~Blank(output.subject)
        /\ Len(output.subject) <= MAX_TEXT_LENGTH
     \/ Blank(output.subject) /\ FailingRules(input.question, output.subject) # {}
     \/ Len(output.subject) > MAX_TEXT_LENGTH /\ FailingRules(input.question, output.subject) # {}

YesWords == {"yes", "y", "true"}
NoWords == {"no", "n", "false"}

\* the answer parseUserAnswer returned for the typed answer of a yes/no question
YesNoNormalized == input.question.type = "YES_NO" /\ output.normalized

\* "YES" normalised and then judged at a yes/no question without rules
RoundTrip ==
  /\ YesNoNormalized /\ output.checked /\ output.subject = output.answer
  /\ input.raw = "YES" /\ input.question.validationRules = <<>>

\* C22 as stated: yes, y and true in any letter case become "yes", no, n and
\* false become "no", every other input is returned unchanged; "YES"
\* becomes "yes", which validateAnswer accepts.
C22_OthersUnchanged ==
  /\ YesNoNormalized =>
        IF ToLowerCase(input.raw) \in YesWords THEN output.answer = "yes"
        ELSE IF ToLowerCase(input.raw) \in NoWords THEN output.answer = "no"
        ELSE output.answer = input.raw
  /\ RoundTrip => output.answer = "yes" /\ output.validation.valid

\* C22: parseUserAnswer first removes the surrounding whitespace; what is
\* left becomes "yes" for yes, y and true in any letter case, "no" for no, n
\* and false, and is returned as it is otherwise; "YES" becomes "yes", which
\* validateAnswer accepts for a yes/no question without rules.
C22_OthersTrimmed ==
  /\ YesNoNormalized =>
        IF ToLowerCase(Trim(input.raw)) \in YesWords THEN output.answer = "yes"
        ELSE IF ToLowerCase(Trim(input.raw)) \in NoWords THEN output.answer = "no"
        ELSE output.answer = Trim(input.raw)
  /\ RoundTrip => output.answer = "yes" /\ output.validation.valid

\* an answer that is neither yes nor no, typed with spaces around it, has
\* been normalised
C22_Witness ==
  YesNoNormalized /\ input.raw # Trim(input.raw) /\ output.answer \notin {"yes", "no", ""}

\* /^\d+$/
PurelyNumeric(s) == s # "" /\ AllDigits(s)

DeclaredOptions(question) == {question.options[k] : k \in 1..Len(question.options)}

\* the answer parseUserAnswer returned for the typed answer of a
\* single-choice question
ChoiceNormalized == input.question.type = "SINGLE_CHOICE" /\ output.normalized

\* C23 as stated: a purely numeric answer k is replaced by the k-th option
\* and what is returned for it is always a declared option; every other
\* answer is returned unchanged.
C23_NumericIsAlwaysOption ==
  ChoiceNormalized =>
    IF PurelyNumeric(input.raw)
    THEN /\ output.answer \in DeclaredOptions(input.question)
         /\ ParseInt(input.raw) \in 1..Len(input.question.options) =>
               output.answer = input.question.options[ParseInt(input.raw)]
    ELSE output.answer = input.raw

\* C23: parseUserAnswer first removes the surrounding whitespace; if what is
\* left is a purely numeric k with 1 <= k <= n it returns the k-th declared
\* option; in every other case, a number outside 1..n included, it returns
\* the answer with only the surrounding whitespace removed.
C23_NumericInRangeIsOption ==
  ChoiceNormalized =>
    IF PurelyNumeric(Trim(input.raw)) /\ ParseInt(Trim(input.raw)) \in 1..Len(input.question.options)
    THEN output.answer = input.question.options[ParseInt(Trim(input.raw))]
    ELSE output.answer = Trim(input.raw)

\* a number beyond the last option, or 0, has been normalised at a question
\* that declares options
C23_Witness ==
  /\ ChoiceNormalized
  /\ Len(input.question.options) > 0
  /\ PurelyNumeric(input.raw)
  /\ ParseInt(input.raw) \notin 1..Len(input.question.options)
  /\ output.answer = input.raw

(***************************************************************************)
(* Classification.  Confidences are hundredths.  The adapter call         *)
(* model.generateContent is the environment's: it is disabled, it throws, *)
(* it replies with a text, or it never settles.  A reply is described by  *)
(* what parseClassificationResponse reads of it: whether it holds a JSON  *)
(* object that parses, and the object's `category` and `confidence`.      *)
(***************************************************************************)
CONFIDENCE_MEDIUM == 50

\* GEMINI_CONFIG.TIMEOUT_MS
GEMINI_TIMEOUT_MS == 10000

\* how many timeouts long a pending adapter call is followed
MaxWaits == 2

\* NaN: no number of hundredths, and no comparison with it is true
NaN == 0 - 1000000

\* JSON values: a number, a string, or an absent member
Num(n) == [type |-> "number", num |-> n, str |-> ""]
StrV(s) == [type |-> "string", num |-> 0, str |-> s]
Absent == [type |-> "undefined", num |-> 0, str |-> ""]

\* the truthiness `||` tests
Truthy(v) ==
  CASE v.type = "number" -> v.num # 0 /\ v.num # NaN
    [] v.type = "string" -> v.str # ""
    [] OTHER -> FALSE

\* v || d
OrElseValue(v, d) == IF Truthy(v) THEN v ELSE d

\* Number(s) in hundredths, for whole numbers and literals d.dd; NaN for
\* every other text
StringToNumber(s) ==
  IF s = "" THEN 0
  ELSE IF AllDigits(s) THEN 100 * ParseInt(s)
  ELSE IF Len(s) = 4 /\ CharAt(s, 2) = "." /\ IsDigit(CharAt(s, 1)) /\ AllDigits(SubSeq(s, 3, 4))
       THEN 100 * ParseInt(SubSeq(s, 1, 1)) + ParseInt(SubSeq(s, 3, 4))
  ELSE NaN

\* the conversion Math.min and Math.max apply to an argument
ToNumber(v) ==
  CASE v.type = "number" -> v.num
    [] v.type = "string" -> StringToNumber(v.str)
    [] OTHER -> NaN

MathMin(a, b) == IF a = NaN \/ b = NaN THEN NaN ELSE IF a < b THEN a ELSE b
MathMax(a, b) == IF a = NaN \/ b = NaN THEN NaN ELSE IF a > b THEN a ELSE b

\* a >= b of two numbers
AtLeast(a, b) == a # NaN /\ b # NaN /\ a >= b

\* variant: the thresholds are exclusive
getConfidenceLevel_Exclusive(confidence) ==
  IF AtLeast(confidence, CONFIDENCE_HIGH + 1) THEN "HIGH"
  ELSE IF AtLeast(confidence, CONFIDENCE_MEDIUM + 1) THEN "MEDIUM"
  ELSE "LOW"

getConfidenceLevel(confidence) ==
  IF AtLeast(confidence, CONFIDENCE_HIGH) THEN "HIGH"
  ELSE IF AtLeast(confidence, CONFIDENCE_MEDIUM) THEN "MEDIUM"
  ELSE "LOW"

getSuggestedQuestions(category, confidenceLevel) ==
  LET questionTree == getQuestionTree(category)
  IN  CASE confidenceLevel = "HIGH" -> <<questionTree.rootQuestionId>>
        [] confidenceLevel = "MEDIUM" -> <<"confirm_category", questionTree.rootQuestionId>>
        [] confidenceLevel = "LOW" -> <<"clarify_issue">>
        [] OTHER -> <<questionTree.rootQuestionId>>

\* Object.entries(ISSUE_CATEGORIES): the categories in declaration order,
\* each with its keywords
ISSUE_CATEGORIES ==
  << [category |-> "ORDER_STATUS",
      keywords |-> <<"order", "tracking", "shipped", "delivery", "status", "where is",
                     "when will", "arrive", "eta", "tracking number", "package">>],
     [category |-> "DELIVERY_PROBLEM",
      keywords |-> <<"delivery", "delayed", "late", "wrong address", "not delivered",
                     "missing", "lost", "damaged", "failed delivery", "courier">>],
     [category |-> "PAYMENT_ISSUE",
      keywords |-> <<"payment", "charged", "credit card", "declined", "failed",
                     "double charged", "billing", "transaction", "pay", "charge">>],
     [category |-> "REFUND_REQUEST",
      keywords |-> <<"refund", "money back", "return", "reimbursement", "refund status",
                     "when will i get", "refund policy", "get my money">>],
     [category |-> "PRODUCT_DEFECT",
      keywords |-> <<"defective", "broken", "damaged", "wrong item", "not working",
                     "faulty", "quality", "defect", "incorrect", "different">>],
     [category |-> "ACCOUNT_ACCESS",
      keywords |-> <<"login", "password", "account", "access", "locked", "reset",
                     "forgot password", "cant login", "sign in", "username">>],
     [category |-> "BILLING_INQUIRY",
      keywords |-> <<"invoice", "bill", "statement", "receipt", "billing",
                     "charge details", "invoice copy", "billing history">>],
     [category |-> "CANCELLATION",
      keywords |-> <<"cancel", "cancellation", "cancel order", "dont want",
                     "stop order", "cancel my order", "cancel subscription">>],
     [category |-> "OTHER",
      keywords |-> <<"other", "general", "question", "help", "support", "inquiry">>] >>

Classification(category, confidence, reasoning) ==
  [category |-> category, confidence |-> confidence, reasoning |-> reasoning]

\* metadata.keywords.filter(keyword => messageLower.includes(keyword.toLowerCase())).length
matchCount(metadata, messageLower) ==
  Cardinality({k \in 1..Len(metadata.keywords) : Includes(messageLower, ToLowerCase(metadata.keywords[k]))})

\* variant: the confidence is not capped at 0.9
fallbackClassification_Uncapped(userMessage) ==
  LET messageLower == ToLowerCase(userMessage)
      matching == {i \in 1..Len(ISSUE_CATEGORIES) : matchCount(ISSUE_CATEGORIES[i], messageLower) > 0}
      first == CHOOSE i \in matching : \A j \in matching : i <= j
  IN  IF matching = {} THEN Classification("OTHER", 40, "No keyword matches (fallback classification)")
      ELSE Classification(ISSUE_CATEGORIES[first].category,
                          50 + matchCount(ISSUE_CATEGORIES[first], messageLower) * 10,
                          "Matched keywords (fallback classification)")

fallbackClassification(userMessage) ==
  LET messageLower == ToLowerCase(userMessage)
      matching == {i \in 1..Len(ISSUE_CATEGORIES) : matchCount(ISSUE_CATEGORIES[i], messageLower) > 0}
      first == CHOOSE i \in matching : \A j \in matching : i <= j
  IN  IF matching = {} THEN Classification("OTHER", 40, "No keyword matches (fallback classification)")
      ELSE Classification(ISSUE_CATEGORIES[first].category,
                          MathMin(90, 50 + matchCount(ISSUE_CATEGORIES[first], messageLower) * 10),
                          "Matched keywords (fallback classification)")

\* a reply text: json is "none" (no {...} in it), "malformed" (JSON.parse
\* throws) or "object"
Reply(json, category, confidence) == [json |-> json, category |-> category, confidence |-> confidence]

parseClassificationResponse(text) ==
  IF text.json # "object" THEN Classification("OTHER", 30, "Parse error")
  ELSE IF ~(text.category.type = "string" /\ text.category.str \in IssueCategory)
  THEN Classification("OTHER", 30, "Category not recognized")
  ELSE Classification(text.category.str,
                      MathMax(0, MathMin(100, ToNumber(OrElseValue(text.confidence, Num(50))))),
                      "No reasoning provided")

\* what the call of generateContent comes to
Adapter(outcome, reply) == [outcome |-> outcome, reply |-> reply]

\* classifyUserInput once the adapter call, if one is made, has settled
classifyUserInput(userMessage, adapter) ==
  IF adapter.outcome = "disabled" THEN fallbackClassification(userMessage)
  ELSE IF adapter.outcome = "replies" THEN parseClassificationResponse(adapter.reply)
  ELSE fallbackClassification(userMessage)

classifyIssue(userMessage, adapter) ==
  LET classified == classifyUserInput(userMessage, adapter)
      confidenceLevel == getConfidenceLevel(classified.confidence)
  IN  [category |-> classified.category,
       confidence |-> classified.confidence,
       confidenceLevel |-> confidenceLevel,
       reasoning |-> classified.reasoning,
       suggestedQuestions |-> getSuggestedQuestions(classified.category, confidenceLevel)]

ReplyCategories == {StrV("ORDER_STATUS"), StrV("REFUND_REQUEST"), StrV("SHIPPING"), StrV("order_status"), Absent}

ReplyConfidences ==
  {Num(0 - 20), Num(0), Num(45), Num(49), Num(50), Num(79), Num(80), Num(100), Num(150),
   StrV("0.85"), StrV("high"), Absent}

Replies ==
  {Reply("none", Absent, Absent), Reply("malformed", Absent, Absent)}
  \cup {Reply("object", category, confidence) : category \in ReplyCategories, confidence \in ReplyConfidences}

Adapters ==
  {Adapter("disabled", Reply("none", Absent, Absent)),
   Adapter("throws", Reply("none", Absent, Absent)),
   Adapter("silent", Reply("none", Absent, Absent))}
  \cup {Adapter("replies", reply) : reply \in Replies}

UserMessages ==
  {"Where is my order?", "My package is delayed", "I want a refund", "Hello there",
   "HELP", "order tracking shipped delivery status", "I was charged twice, cancel it"}

NoClassification ==
  [category |-> Undefined, confidence |-> 0, confidenceLevel |-> Undefined,
   reasoning |-> "", suggestedQuestions |-> <<>>]

InitClassify ==
  /\ StoreInit
  /\ \E userMessage \in UserMessages : \E adapter \in Adapters :
        input = [userMessage |-> userMessage, adapter |-> adapter]
  /\ output = [phase |-> "idle", since |-> 0, result |-> NoClassification]

Classified == [output EXCEPT !.phase = "done", !.result = classifyIssue(input.userMessage, input.adapter)]

\* classifyIssue is called: without an adapter the keyword classification is
\* returned at once, otherwise the call waits at `await model.generateContent`
ClassifyIssueCall ==
  /\ output.phase = "idle"
  /\ output' = IF input.adapter.outcome = "disabled" THEN Classified
               ELSE [output EXCEPT !.phase = "awaiting", !.since = now]
  /\ UNCHANGED <<input, storeVars>>

\* the adapter's promise resolves with a text
GenerateContentReplies ==
  /\ output.phase = "awaiting" /\ input.adapter.outcome = "replies"
  /\ output' = Classified
  /\ UNCHANGED <<input, storeVars>>

\* the adapter's promise rejects, or reading the text throws
GenerateContentThrows ==
  /\ output.phase = "awaiting" /\ input.adapter.outcome = "throws"
  /\ output' = Classified
  /\ UNCHANGED <<input, storeVars>>

\* time passes while the call waits; no timer is set on the call, so
\* nothing else happens
GenerateContentPending ==
  /\ output.phase = "awaiting"
  /\ now < MaxWaits * GEMINI_TIMEOUT_MS
  /\ now' = now + GEMINI_TIMEOUT_MS
  /\ UNCHANGED <<sessions, keyOrder, created, requests, input, output>>

NextClassify ==
  ClassifyIssueCall \/ GenerateContentReplies \/ GenerateContentThrows \/ GenerateContentPending

SpecClassify == InitClassify /\ [][NextClassify]_vars

\* C24: a confidence c in [0,1] falls in exactly one branch of what
\* classifyIssue proposes: from 0.8 the root question of the category's tree
\* alone; from 0.5 and below 0.8 one confirmation step and then the root
\* question; below 0.5 a request for clarification and no question of the
\* tree.
C24_ConfidenceBranches ==
  (output.phase = "done" /\ output.result.confidence \in 0..100) =>
    LET c == output.result.confidence
        root == QUESTION_TREES[output.result.category].rootQuestionId
        proposed == output.result.suggestedQuestions
    IN  /\ c >= 80 => proposed = <<root>>
        /\ (50 <= c /\ c < 80) => proposed = <<"confirm_category", root>>
        /\ c < 50 =>
             /\ proposed = <<"clarify_issue">>
             /\ \A k \in 1..Len(proposed) :
                  proposed[k] \notin DOMAIN QUESTION_TREES[output.result.category].questions

\* a classification that sits exactly on a threshold
C24_Witness ==
  /\ output.phase = "done"
  /\ output.result.confidence \in {50, 80}
  /\ input.adapter.outcome = "replies"

\* a /message request in flight that is past the point where the route
\* decides whether to classify, handled as a turn of a conversation whose
\* category is settled
HandledAsSettled(request) ==
  /\ request.kind = "message"
  /\ request.pc \in {"determine", "solution", "out_of_scope"}
  /\ request.sessionId \in DOMAIN sessions

\* C25: a message of a session whose recorded classification has a
\* confidence below 0.5 is classified again, so that the tentative category
\* can be replaced: no such message is handled as a turn of a conversation
\* whose category is settled.
C25_LowConfidenceReclassified ==
  \A i \in 1..Len(requests) :
    HandledAsSettled(requests[i]) => sessions[requests[i].sessionId].confidence >= 50

\* C26: the classification adapter is never invoked for a session started in
\* system-initiated mode.
C26_GuidedNeverClassifies ==
  \A i \in 1..Len(requests) :
    (requests[i].pc = "classify" /\ requests[i].sessionId \in DOMAIN sessions)
      => sessions[requests[i].sessionId].mode # "SYSTEM_INITIATED"

\* C27: whatever the adapter does, classifyUserInput returns a category of
\* the IssueCategory enumeration and a confidence in [0,1].
C27_ClassificationWellFormed ==
  output.phase = "done" =>
    /\ output.result.category \in IssueCategory
    /\ output.result.confidence \in 0..100

\* the classification came from the keyword fallback
ByKeywords == output.phase = "done" /\ input.adapter.outcome \in {"disabled", "throws"}

\* number of the i-th category's keywords that occur in the message
KeywordHits(i, message) ==
  Cardinality({k \in 1..Len(ISSUE_CATEGORIES[i].keywords) :
                 Includes(ToLowerCase(message), ToLowerCase(ISSUE_CATEGORIES[i].keywords[k]))})

\* C28: when the adapter is disabled or fails, the classification is the
\* keyword fallback's: a category of the enumeration with a confidence in
\* [0.4, 0.9]; OTHER at exactly 0.4 when no keyword of any category occurs in
\* the message, and otherwise a category with hits, at 0.5 plus 0.1 for each
\* of its hits and at most 0.9.
C28_KeywordFallback ==
  ByKeywords =>
    LET categories == 1..Len(ISSUE_CATEGORIES)
        hits == [i \in categories |-> KeywordHits(i, input.userMessage)]
        result == output.result
    IN  /\ result.category \in IssueCategory
        /\ result.confidence \in 40..90
        /\ (\A i \in categories : hits[i] = 0) =>
             result.category = "OTHER" /\ result.confidence = 40
        /\ (\E i \in categories : hits[i] > 0) =>
             \E i \in categories :
               /\ ISSUE_CATEGORIES[i].category = result.category
               /\ hits[i] > 0
               /\ result.confidence = IF 50 + 10 * hits[i] > 90 THEN 90 ELSE 50 + 10 * hits[i]

\* the adapter threw at a message with more keyword hits than the cap lets
\* count
C28_Witness ==
  /\ ByKeywords
  /\ input.adapter.outcome = "throws"
  /\ \E i \in 1..Len(ISSUE_CATEGORIES) :
       /\ ISSUE_CATEGORIES[i].category = output.result.category
       /\ KeywordHits(i, input.userMessage) > 4
  /\ output.result.confidence = 90

\* C29: a classification call does not wait for the adapter beyond the
\* fixed timeout: once that time has passed without an answer the call has
\* ended with the keyword classification.
C29_NeverStalls ==
  output.phase = "awaiting" => now - output.since <= GEMINI_TIMEOUT_MS

\* the priority findResolution escalates a path of each kind at, the team
\* the priority-to-team table names for it, and the response time used when
\* the path declares none
EscalationPriority == ("ESCALATE_AGENT" :> "medium") @@ ("ESCALATE_SPECIALIST" :> "high")
TeamTable ==
  ("urgent" :> "Priority Support Team") @@ ("high" :> "Specialist Team")
  @@ ("medium" :> "Customer Support Team") @@ ("low" :> "General Support Team")
DefaultResponseTime == ("ESCALATE_AGENT" :> "24 hours") @@ ("ESCALATE_SPECIALIST" :> "48 hours")

\* findResolution's switch applied to a path: each path the tables declare,
\* and an escalation of each kind that declares no estimated time
DeclaredPaths ==
  UNION {{RESOLUTION_PATHS[category][i] : i \in 1..Len(RESOLUTION_PATHS[category])} : category \in IssueCategory}

UntimedPaths ==
  {Path("untimed_agent", "OTHER", "ESCALATE_AGENT", <<>>, <<>>, "", ""),
   Path("untimed_specialist", "OTHER", "ESCALATE_SPECIALIST", <<>>, <<>>, "", "")}

\* the call is made on the first day of the clock or on the next
InitResolve ==
  /\ sessions = <<>> /\ keyOrder = <<>> /\ created = 0 /\ requests = <<>>
  /\ now \in {0, MS_PER_DAY}
  /\ \E path \in DeclaredPaths \cup UntimedPaths : input = [path |-> path]
  /\ output = NoMatchOutput

BuildResolutionCall ==
  /\ ~output.called
  /\ \E rnd \in RandomValues, uuid \in UuidPrefixes :
        output' = [called |-> TRUE,
                   path |-> input.path,
                   resolution |-> buildResolution(input.path, <<>>, now, rnd, uuid)]
  /\ UNCHANGED <<input, storeVars>>

NextResolve == BuildResolutionCall

SpecResolve == InitResolve /\ [][NextResolve]_vars

StartsWith(s, prefix) == Len(s) > Len(prefix) /\ SubSeq(s, 1, Len(prefix)) = prefix

\* C30: the Resolution built for a matched path has the path's kind; a
\* self-service one carries the path's steps; an automated-action one the
\* steps and a minted reference number; an escalation a minted ticket
\* number, the team the priority-to-team table names, and the path's
\* estimated time or else the default of its kind.
C30_ResolutionFollowsPath ==
  (output.called /\ output.path.type \in ResolutionType) =>
    LET path == output.path
        resolution == output.resolution
        details == resolution.escalationDetails
    IN  /\ resolution.type = path.type
        /\ path.type = "SELF_SERVICE" =>
             resolution.hasSteps /\ resolution.steps = path.steps
        /\ path.type = "AUTOMATED_ACTION" =>
             /\ resolution.hasSteps /\ resolution.steps = path.steps
             /\ StartsWith(resolution.referenceNumber, "REF-")
        /\ path.type \in DOMAIN EscalationPriority =>
             /\ StartsWith(details.ticketNumber, "TKT-")
             /\ details.team = TeamTable[EscalationPriority[path.type]]
             /\ details.estimatedResponseTime =
                  IF path.estimatedTime \notin {"", Undefined} THEN path.estimatedTime
                  ELSE DefaultResponseTime[path.type]

\* a path escalated to a specialist that declares no estimated time has
\* been resolved
C30_Witness ==
  /\ output.called
  /\ output.path.type = "ESCALATE_SPECIALIST"
  /\ output.path.estimatedTime = ""
  /\ output.resolution.escalationDetails.team = "Specialist Team"
  /\ output.resolution.escalationDetails.estimatedResponseTime = "48 hours"

(***************************************************************************)
(* Order chat: the option-driven conversation about one order.  A         *)
(* ChatOption's resolutionMessage is Undefined when the option declares   *)
(* none; message texts are cut to the paragraph the handlers work on (the *)
(* first sentence of a step's prompt, the closing paragraph of a          *)
(* resolution message).                                                   *)
(***************************************************************************)
ChatOption(id, text, nextStep, resolutionMessage) ==
  [id |-> id, text |-> text, nextStep |-> nextStep, resolutionMessage |-> resolutionMessage]

ChatStep(id, message, options) == [id |-> id, message |-> message, options |-> options]

\* the order a chat is opened about, as the request body carries it; an
\* absent deliveryDate is Undefined and a missing required field is ""
generateInitialGreeting(customerName, productName, deliveryStatus, deliveryDate) ==
  LET statusMessage ==
        IF deliveryStatus = "delivered" /\ deliveryDate \notin {Undefined, ""}
          THEN "has been delivered on " \o deliveryDate
        ELSE IF deliveryStatus = "in_transit" /\ deliveryDate \notin {Undefined, ""}
          THEN "is expected to be delivered on " \o deliveryDate
        ELSE "is currently being processed"
  IN  ChatStep("initial",
               "Hi " \o customerName \o ", the order you placed for " \o productName \o " "
                 \o statusMessage \o ". Do you have any query?",
               <<ChatOption("yes_query", "Yes, I have a query", "main_menu", Undefined),
                 ChatOption("no_query", "No, end chat", "RESOLVE", "Thank you for contacting us! Have a great day!")>>)

MAIN_MENU ==
  ChatStep("main_menu", "Please select the type of issue you're facing:",
    <<ChatOption("issue_with_item", "Issue with item", "issue_with_item_menu", Undefined),
      ChatOption("did_not_get_item", "Did not get the item", "did_not_get_item_menu", Undefined),
      ChatOption("return_exchange", "Return or exchange the item", "return_exchange_menu", Undefined),
      ChatOption("feedback_delivery", "Feedback on delivery executive", "feedback_menu", Undefined),
      ChatOption("download_invoice", "Download invoice", "RESOLVE", "Your invoice has been sent to your registered email address. You can also download it from your order details page."),
      ChatOption("other_issue", "Other issue", "other_issue_menu", Undefined),
      ChatOption("end_chat", "End chat", "RESOLVE", "Thank you for contacting us! If you need further assistance, feel free to reach out again.")>>)

ISSUE_WITH_ITEM_MENU ==
  ChatStep("issue_with_item_menu", "What kind of issue are you experiencing with the item?",
    <<ChatOption("wrong_product", "I received wrong product", "wrong_product_flow", Undefined),
      ChatOption("image_mismatch", "Product image doesn't match the catalogue", "image_mismatch_flow", Undefined),
      ChatOption("missing_item", "Missing an item in the product or complete product", "missing_item_flow", Undefined),
      ChatOption("damaged_product", "Product is damaged or defective", "damaged_product_flow", Undefined),
      ChatOption("back_to_main", "Back to main menu", "main_menu", Undefined),
      ChatOption("end_chat", "End chat", "RESOLVE", "Thank you for contacting us!")>>)

WRONG_PRODUCT_FLOW ==
  ChatStep("wrong_product_flow", "I'm sorry you received the wrong product.",
    <<ChatOption("initiate_return", "Initiate return and get refund", "ESCALATE", "Ticket #TKT-{timestamp} has been created for your reference."),
      ChatOption("exchange_correct", "Exchange for correct product", "ESCALATE", "Ticket #TKT-{timestamp} has been created for your reference."),
      ChatOption("back_to_main", "Back to main menu", "main_menu", Undefined)>>)

IMAGE_MISMATCH_FLOW ==
  ChatStep("image_mismatch_flow", "I understand the product doesn't match what was shown.",
    <<ChatOption("return_refund", "Return and get refund", "ESCALATE", "Ticket #TKT-{timestamp} has been created."),
      ChatOption("keep_discount", "Keep product with partial refund", "ESCALATE", "Ticket #TKT-{timestamp} has been created."),
      ChatOption("back_to_main", "Back to main menu", "main_menu", Undefined)>>)

MISSING_ITEM_FLOW ==
  ChatStep("missing_item_flow", "I'm sorry about the missing item.",
    <<ChatOption("send_missing", "Send the missing item", "ESCALATE", "Ticket #TKT-{timestamp} has been created."),
      ChatOption("full_refund", "Get full refund", "ESCALATE", "Ticket #TKT-{timestamp} has been created."),
      ChatOption("back_to_main", "Back to main menu", "main_menu", Undefined)>>)

DAMAGED_PRODUCT_FLOW ==
  ChatStep("damaged_product_flow", "I apologize for receiving a damaged product.",
    <<ChatOption("replacement", "Get replacement product", "ESCALATE", "Ticket #TKT-{timestamp} has been created."),
      ChatOption("refund", "Return and get refund", "ESCALATE", "Ticket #TKT-{timestamp} has been created."),
      ChatOption("back_to_main", "Back to main menu", "main_menu", Undefined)>>)

DID_NOT_GET_ITEM_MENU ==
  ChatStep("did_not_get_item_menu", "I'm sorry you haven't received your item.",
    <<ChatOption("check_neighbors", "It might be with neighbors", "check_neighbors_flow", Undefined),
      ChatOption("wrong_address", "Delivered to wrong address", "ESCALATE", "Ticket #TKT-{timestamp} has been created."),
      ChatOption("never_arrived", "Package never arrived", "ESCALATE", "Ticket #TKT-{timestamp} has been created."),
      ChatOption("back_to_main", "Back to main menu", "main_menu", Undefined)>>)

CHECK_NEIGHBORS_FLOW ==
  ChatStep("check_neighbors_flow", "Have you checked with your neighbors or building security?",
    <<ChatOption("found_it", "Yes, found it!", "RESOLVE", "Great! I'm glad you found your package. Enjoy your purchase! If you need anything else, feel free to contact us."),
      ChatOption("not_found", "Checked, but not found", "ESCALATE", "Ticket #TKT-{timestamp} has been created."),
      ChatOption("back_to_main", "Back to main menu", "main_menu", Undefined)>>)

RETURN_EXCHANGE_MENU ==
  ChatStep("return_exchange_menu", "Would you like to return or exchange your item?",
    <<ChatOption("return_refund", "Return for refund", "return_reason_menu", Undefined),
      ChatOption("exchange_item", "Exchange for different size/color", "exchange_flow", Undefined),
      ChatOption("back_to_main", "Back to main menu", "main_menu", Undefined)>>)

RETURN_REASON_MENU ==
  ChatStep("return_reason_menu", "What is the reason for return?",
    <<ChatOption("changed_mind", "Changed my mind", "ESCALATE", "Ticket #TKT-{timestamp} has been created."),
      ChatOption("not_as_expected", "Product not as expected", "ESCALATE", "Ticket #TKT-{timestamp} has been created."),
      ChatOption("quality_issue", "Quality issue", "ESCALATE", "Ticket #TKT-{timestamp} has been created."),
      ChatOption("back_to_main", "Back to main menu", "main_menu", Undefined)>>)

EXCHANGE_FLOW ==
  ChatStep("exchange_flow", "I'll help you exchange your item.",
    <<ChatOption("different_size", "Exchange for different size", "ESCALATE", "Ticket #TKT-{timestamp} has been created."),
      ChatOption("different_color", "Exchange for different color", "ESCALATE", "Ticket #TKT-{timestamp} has been created."),
      ChatOption("back_to_main", "Back to main menu", "main_menu", Undefined)>>)

FEEDBACK_MENU ==
  ChatStep("feedback_menu", "Please share your feedback about the delivery executive:",
    <<ChatOption("positive_feedback", "Positive feedback", "RESOLVE", "Thank you for your positive feedback! We'll share this with our delivery partner. Your appreciation motivates our delivery executives!"),
      ChatOption("negative_feedback", "Negative feedback / Complaint", "ESCALATE", "Ticket #TKT-{timestamp} has been created."),
      ChatOption("back_to_main", "Back to main menu", "main_menu", Undefined)>>)

OTHER_ISSUE_MENU ==
  ChatStep("other_issue_menu", "Please select the type of issue:",
    <<ChatOption("payment_issue", "Payment or billing issue", "ESCALATE", "Ticket #TKT-{timestamp} has been created."),
      ChatOption("account_issue", "Account related issue", "ESCALATE", "Ticket #TKT-{timestamp} has been created."),
      ChatOption("general_query", "General query", "ESCALATE", "Ticket #TKT-{timestamp} has been created."),
      ChatOption("back_to_main", "Back to main menu", "main_menu", Undefined)>>)

CHAT_STEPS ==
     ("main_menu" :> MAIN_MENU)
  @@ ("issue_with_item_menu" :> ISSUE_WITH_ITEM_MENU)
  @@ ("wrong_product_flow" :> WRONG_PRODUCT_FLOW)
  @@ ("image_mismatch_flow" :> IMAGE_MISMATCH_FLOW)
  @@ ("missing_item_flow" :> MISSING_ITEM_FLOW)
  @@ ("damaged_product_flow" :> DAMAGED_PRODUCT_FLOW)
  @@ ("did_not_get_item_menu" :> DID_NOT_GET_ITEM_MENU)
  @@ ("check_neighbors_flow" :> CHECK_NEIGHBORS_FLOW)
  @@ ("return_exchange_menu" :> RETURN_EXCHANGE_MENU)
  @@ ("return_reason_menu" :> RETURN_REASON_MENU)
  @@ ("exchange_flow" :> EXCHANGE_FLOW)
  @@ ("feedback_menu" :> FEEDBACK_MENU)
  @@ ("other_issue_menu" :> OTHER_ISSUE_MENU)

\* `undefined` where a ChatStep is expected, and a member inherited from
\* Object.prototype read as a ChatStep (truthy, every field undefined)
UndefinedStep == ChatStep(Undefined, Undefined, <<>>)
InheritedStep(key) == ChatStep(Inherited(key), Undefined, <<>>)

\* variant: the exchange flow is not registered
getChatStep_Unregistered(stepId) ==
  IF stepId \in DOMAIN CHAT_STEPS \ {"exchange_flow"} THEN CHAT_STEPS[stepId] ELSE UndefinedStep

\* CHAT_STEPS[stepId]
getChatStep(stepId) ==
  IF stepId \in DOMAIN CHAT_STEPS THEN CHAT_STEPS[stepId]
  ELSE IF stepId \in ObjectPrototypeKeys THEN InheritedStep(stepId)
  ELSE UndefinedStep

\* String.prototype.replace with a string pattern: the first occurrence
ReplaceFirst(s, pattern, replacement) ==
  IF ~Includes(s, pattern) THEN s
  ELSE LET at == CHOOSE i \in 1..(Len(s) - Len(pattern) + 1) :
                   /\ SubSeq(s, i, i + Len(pattern) - 1) = pattern
                   /\ \A j \in 1..(i - 1) : SubSeq(s, j, j + Len(pattern) - 1) # pattern
       IN  SubSeq(s, 1, at - 1) \o replacement \o SubSeq(s, at + Len(pattern), Len(s))

\* options.find(opt => opt.id === optionId): the index of the first option
\* with that id, 0 when there is none
FindOption(options, optionId) ==
  IF \E i \in 1..Len(options) : options[i].id = optionId
  THEN CHOOSE i \in 1..Len(options) :
         options[i].id = optionId /\ \A j \in 1..(i - 1) : options[j].id # optionId
  ELSE 0

(***************************************************************************)
(* SpecOrderChat: the order chat routes.  `sessions` is the               *)
(* orderChatSessions Map, `created` the number of session ids issued,     *)
(* `input` the latest request and `output` the response to it.  The clock *)
(* advances between requests and between the two clock reads of an        *)
(* escalation.                                                            *)
(***************************************************************************)
MaxOrderSessions == 1
MaxOrderMessages == 9
MaxOrderClock == 1
MaxElapsed == 1

OrderSessionId(n) == "chat-" \o ToString(n)

\* request bodies of /start: a delivered order, and a body without
\* customerName
OrderBodies ==
  {[orderId |-> "ORD-12345", customerName |-> "John", productName |-> "Socks",
    deliveryStatus |-> "delivered", deliveryDate |-> "12/21/2025"],
   [orderId |-> "ORD-12345", customerName |-> "", productName |-> "Socks",
    deliveryStatus |-> "delivered", deliveryDate |-> Undefined]}

OptionIdsOf(step) == <<>> \o [i \in 1..Len(step.options) |-> step.options[i].id]

\* the number of messages held by the sessions named in `ids`
RECURSIVE StoredMessages(_, _)
StoredMessages(store, ids) ==
  IF ids = <<>> THEN 0
  ELSE Len(store[Head(ids)].conversationHistory) + StoredMessages(store, Tail(ids))

OrderResponse(status, error, sessionId, message, options, resolved, escalated, ticketNumber) ==
  [status |-> status, error |-> error, sessionId |-> sessionId, message |-> message, options |-> options,
   resolved |-> resolved, escalated |-> escalated, ticketNumber |-> ticketNumber]

OrderError(status, error) ==
  OrderResponse(status, error, Undefined, Undefined, <<>>, Undefined, Undefined, Undefined)

BotMessage(message) == [type |-> "bot", message |-> message]
UserMessage(message) == [type |-> "user", message |-> message]

InitOrderChat ==
  /\ sessions = <<>> /\ keyOrder = <<>> /\ created = 0 /\ requests = <<>>
  /\ now = 0
  /\ input = [route |-> "none"]
  /\ output = OrderError(0, Undefined)

\* POST /api/order-chat/start
OrderChatStart ==
  /\ created < MaxOrderSessions
  /\ StoredMessages(sessions, keyOrder) + 1 <= MaxOrderMessages
  /\ \E body \in OrderBodies :
       /\ input' = [route |-> "start", body |-> body]
       /\ IF body.orderId = "" \/ body.customerName = "" \/ body.productName = "" \/ body.deliveryStatus = ""
          THEN /\ output' = OrderError(400, "Missing required fields: orderId, customerName, productName, deliveryStatus")
               /\ UNCHANGED <<sessions, keyOrder, created>>
          ELSE LET sessionId == OrderSessionId(created + 1)
                   initialStep == generateInitialGreeting(body.customerName, body.productName,
                                                          body.deliveryStatus, body.deliveryDate)
                   session == [sessionId |-> sessionId, orderId |-> body.orderId,
                               customerName |-> body.customerName, productName |-> body.productName,
                               deliveryStatus |-> body.deliveryStatus, deliveryDate |-> body.deliveryDate,
                               currentStep |-> "initial",
                               conversationHistory |-> <<BotMessage(initialStep.message)>>,
                               resolved |-> FALSE, ticketNumber |-> Undefined]
               IN  /\ sessions' = (sessionId :> session) @@ sessions
                   /\ keyOrder' = Append(keyOrder, sessionId)
                   /\ created' = created + 1
                   /\ output' = OrderResponse(200, Undefined, sessionId, initialStep.message,
                                              OptionIdsOf(initialStep), Undefined, Undefined, Undefined)
  /\ UNCHANGED <<now, requests>>

\* the step a session is at: the greeting, or the registered step
CurrentStepOf(session) ==
  IF session.currentStep = "initial"
  THEN generateInitialGreeting(session.customerName, session.productName,
                               session.deliveryStatus, session.deliveryDate)
  ELSE getChatStep(session.currentStep)

\* what a client may send as optionId: an option of the step the session
\* is at, an id that step does not offer, or nothing
OptionChoices(sessionId) ==
  {"no_such_option", ""}
  \cup (IF sessionId \in DOMAIN sessions
        THEN {CurrentStepOf(sessions[sessionId]).options[i].id :
                i \in 1..Len(CurrentStepOf(sessions[sessionId]).options)}
        ELSE {})

\* POST /api/order-chat/select-option; `elapsed` is the time that passes
\* between the two clock reads of an escalation
SelectOption ==
  \E sessionId \in {OrderSessionId(n) : n \in 1..MaxOrderSessions} \cup {""} :
  \E optionId \in OptionChoices(sessionId) :
    /\ input' = [route |-> "select-option", sessionId |-> sessionId, optionId |-> optionId]
    /\ UNCHANGED <<keyOrder, created, requests>>
    /\ IF sessionId = "" \/ optionId = ""
       THEN /\ output' = OrderError(400, "Missing required fields: sessionId, optionId")
            /\ UNCHANGED <<sessions, now>>
       ELSE IF sessionId \notin DOMAIN sessions
       THEN /\ output' = OrderError(404, "Session not found")
            /\ UNCHANGED <<sessions, now>>
       ELSE
         LET session == sessions[sessionId]
             currentStep == CurrentStepOf(session)
             found == FindOption(currentStep.options, optionId)
             selectedOption == currentStep.options[found]
             chosen == Append(session.conversationHistory, UserMessage(selectedOption.text))
         IN  IF currentStep = UndefinedStep
             THEN /\ output' = OrderError(400, "Invalid current step")
                  /\ UNCHANGED <<sessions, now>>
             ELSE IF found = 0
             THEN /\ output' = OrderError(400, "Invalid option selected")
                  /\ UNCHANGED <<sessions, now>>
             ELSE
               /\ StoredMessages(sessions, keyOrder) + 2 <= MaxOrderMessages
               /\ IF selectedOption.nextStep = "RESOLVE"
                  THEN LET message == IF selectedOption.resolutionMessage = Undefined
                                      THEN "Thank you for contacting us!"
                                      ELSE selectedOption.resolutionMessage
                       IN  /\ sessions' = [sessions EXCEPT ![sessionId] =
                                  [session EXCEPT !.resolved = TRUE,
                                                  !.conversationHistory = Append(chosen, BotMessage(message))]]
                           /\ output' = OrderResponse(200, Undefined, Undefined, message, <<>>, TRUE,
                                                      Undefined, Undefined)
                           /\ UNCHANGED now
                  ELSE IF selectedOption.nextStep = "ESCALATE"
                  THEN \E elapsed \in 0..MaxElapsed :
                       LET ticketNumber == "TKT-" \o ToString(now)
                           template == IF selectedOption.resolutionMessage = Undefined
                                       THEN "I've escalated your issue to our support team. They'll contact you within 24 hours."
                                       ELSE selectedOption.resolutionMessage
                           message == ReplaceFirst(template, "{timestamp}", ToString(now + elapsed))
                       IN  /\ sessions' = [sessions EXCEPT ![sessionId] =
                                  [session EXCEPT !.resolved = TRUE, !.ticketNumber = ticketNumber,
                                                  !.conversationHistory = Append(chosen, BotMessage(message))]]
                           /\ output' = OrderResponse(200, Undefined, Undefined, message, <<>>, TRUE,
                                                      TRUE, ticketNumber)
                           /\ now' = now + elapsed
                  ELSE LET nextStep == getChatStep(selectedOption.nextStep)
                       IN  IF nextStep = UndefinedStep
                           THEN /\ sessions' = [sessions EXCEPT ![sessionId] =
                                       [session EXCEPT !.conversationHistory = chosen]]
                                /\ output' = OrderError(400, "Invalid next step")
                                /\ UNCHANGED now
                           ELSE /\ sessions' = [sessions EXCEPT ![sessionId] =
                                       [session EXCEPT !.currentStep = selectedOption.nextStep,
                                                       !.conversationHistory =
                                                          Append(chosen, BotMessage(nextStep.message))]]
                                /\ output' = OrderResponse(200, Undefined, Undefined, nextStep.message,
                                                           OptionIdsOf(nextStep), FALSE, Undefined, Undefined)
                                /\ UNCHANGED now

\* time passes between two requests
OrderTick ==
  /\ now < MaxOrderClock
  /\ now' = now + 1
  /\ UNCHANGED <<sessions, keyOrder, created, requests, input, output>>

NextOrderChat == OrderChatStart \/ SelectOption \/ OrderTick

SpecOrderChat == InitOrderChat /\ [][NextOrderChat]_vars

\* a select-option request has just escalated a session
EscalationStep == output'.ticketNumber # Undefined /\ sessions' # sessions

\* C31: ticket numbers are unique: the ticket number an escalation gives
\* differs from every ticket number given before, to the same session or to
\* another one.
C31_TicketsUnique ==
  [][EscalationStep =>
       \A sessionId \in DOMAIN sessions : sessions[sessionId].ticketNumber # output'.ticketNumber]_vars

(***************************************************************************)
(* SpecRepeat: findMatchingResolution called again and again with the     *)
(* same category and answers while the clock advances and calls for other *)
(* conversations of the category are made in between.  `output` holds the *)
(* paths the calls returned, in order, and the id of the path the latest  *)
(* call for another conversation returned.                                *)
(***************************************************************************)
MaxRepeats == 2

NoRepeatOutput == [paths |-> <<>>, other |-> Undefined, otherAfter |-> 0]

\* the answers maps of conversations that have recorded one answer, and
\* one or two
FirstAnswerMaps(category) ==
  UNION {[{questionId} -> AnswerValues(category)] : questionId \in ConditionQuestionIds(category)}

EarlyAnswerMaps(category) ==
  FirstAnswerMaps(category)
  \cup UNION {[{p, q} -> AnswerValues(category)] : p, q \in ConditionQuestionIds(category)}

InitRepeat ==
  /\ StoreInit
  /\ \E category \in IssueCategory : \E answers \in EarlyAnswerMaps(category) :
        input = [category |-> category, answers |-> answers]
  /\ output = NoRepeatOutput

\* variant: a result kept per category: the call returns the path the latest
\* call for the category returned, whatever the answers
FindMatchingCall_Cached ==
  /\ Len(output.paths) < MaxRepeats
  /\ LET paths == RESOLUTION_PATHS[input.category]
         path == IF output.other = Undefined THEN findMatchingResolution(input.category, input.answers)
                 ELSE paths[CHOOSE i \in 1..Len(paths) : paths[i].id = output.other]
     IN  output' = [output EXCEPT !.paths = Append(output.paths, path)]
  /\ UNCHANGED <<input, storeVars>>

FindMatchingCall ==
  /\ Len(output.paths) < MaxRepeats
  /\ output' = [output EXCEPT !.paths = Append(output.paths,
                                               findMatchingResolution(input.category, input.answers))]
  /\ UNCHANGED <<input, storeVars>>


\* a call for another conversation of the category
OtherFindMatchingCall ==
  /\ \E answers \in FirstAnswerMaps(input.category) \ {input.answers} :
        output' = [output EXCEPT !.other = findMatchingResolution(input.category, answers).id,
                                 !.otherAfter = Len(output.paths)]
  /\ UNCHANGED <<input, storeVars>>

NextRepeat == FindMatchingCall \/ OtherFindMatchingCall \/ Tick

SpecRepeat == InitRepeat /\ [][NextRepeat]_vars

C33_DelayedMajorEscalates ==
  (/\ input.category = "DELIVERY_PROBLEM"
   /\ "delivery_1" \in DOMAIN output.answers
   /\ output.answers["delivery_1"] = "Package is delayed") =>
    /\ Len(output.visited) = 2 /\ output.visited[2] = "delivery_2"
    /\ ("delivery_2" \in DOMAIN output.answers /\ output.answers["delivery_2"] = "More than 5 days") =>
         /\ output.done
         /\ output.resolved =>
              /\ output.path.id = "delivery_delayed_major"
              /\ output.resolution.type = "ESCALATE_AGENT"

C33_Witness ==
  /\ input.category = "DELIVERY_PROBLEM"
  /\ output.resolved
  /\ output.answers = ("delivery_1" :> "Package is delayed") @@ ("delivery_2" :> "More than 5 days")
  /\ output.path.id = "delivery_delayed_major"

\* C34: every resolution of kind self-service produced by findResolution,
\* for any category and any answers map, carries a non-empty steps list; in
\* particular category ACCOUNT_ACCESS with root answer "Forgot password" and
\* next answer "no" yields a self-service resolution with a non-empty steps
\* list.
C34_SelfServiceHasSteps ==
  output.called =>
    /\ output.resolution.type = "SELF_SERVICE" =>
         output.resolution.hasSteps /\ Len(output.resolution.steps) > 0
    /\ (/\ input.category = "ACCOUNT_ACCESS"
        /\ input.answers = ("account_1" :> "Forgot password") @@ ("account_2" :> "no")) =>
         /\ output.resolution.type = "SELF_SERVICE"
         /\ output.resolution.hasSteps /\ Len(output.resolution.steps) > 0

C34_Witness ==
  /\ output.called
  /\ input.category = "ACCOUNT_ACCESS"
  /\ input.answers = ("account_1" :> "Forgot password") @@ ("account_2" :> "no")
  /\ output.path.id = "account_password_self_service"
  /\ Len(output.resolution.steps) = 5

\* C35: an order chat ends when an option leading to RESOLVE or ESCALATE is
\* selected: once a session is marked resolved, no later request changes
\* its history, its current step or its ticket number, and no further
\* ticket is created for it.
C35_ResolvedChatIsOver ==
  [][\A sessionId \in DOMAIN sessions :
        sessions[sessionId].resolved =>
          /\ sessions'[sessionId].conversationHistory = sessions[sessionId].conversationHistory
          /\ sessions'[sessionId].currentStep = sessions[sessionId].currentStep
          /\ sessions'[sessionId].ticketNumber = sessions[sessionId].ticketNumber
          /\ ~(EscalationStep /\ input'.sessionId = sessionId)]_vars

\* the questions reached from `seen` by following nextQuestionMap entries
RECURSIVE FollowEdges(_, _)
FollowEdges(tree, seen) ==
  LET next == seen \cup UNION {{tree.questions[q].nextQuestionMap[a] : a \in DOMAIN tree.questions[q].nextQuestionMap} :
                                 q \in seen \cap DOMAIN tree.questions}
  IN  IF next = seen THEN seen ELSE FollowEdges(tree, next)

ReachableQuestions(category) ==
  FollowEdges(QUESTION_TREES[category], {QUESTION_TREES[category].rootQuestionId})

\* C36: every question defined in a category's tree is reachable from that
\* tree's root by following nextQuestionMap edges: the tree of the
\* conversation's category contains no orphaned question.
C36_NoOrphanedQuestion ==
  DOMAIN QUESTION_TREES[input.category].questions \subseteq ReachableQuestions(input.category)

\* the answers maps collected by the conversations that start at `question`
\* with `answers` recorded and go on, as AnswerQuestion does, until no next
\* question exists
RECURSIVE CompletedWalks(_, _, _, _)
CompletedWalks(category, question, answers, fuel) ==
  IF fuel = 0 THEN {}
  ELSE UNION {LET answer == parseUserAnswer(question, raw)
                  recorded == (question.id :> answer) @@ answers
                  next == getNextQuestion(category, question.id, answer)
              IN  IF ~validateAnswer(question, answer).valid THEN {}
                  ELSE IF next = UndefinedQuestion THEN {recorded}
                  ELSE CompletedWalks(category, next, recorded, fuel - 1) :
              raw \in RawAnswers(question)}

\* the ids of the paths findMatchingResolution returns for them
SelectablePaths(category) ==
  {findMatchingResolution(category, answers).id :
     answers \in CompletedWalks(category, getFirstQuestion(category), <<>>, MaxWalk)}

\* C37: every declared resolution path can be selected by a conversation:
\* for each path of the category there is a sequence of answers, walking
\* the tree from the root until no next question exists, whose collected
\* answers make findMatchingResolution return that path.
C37_EveryPathSelectable ==
  \A i \in 1..Len(RESOLUTION_PATHS[input.category]) :
     RESOLUTION_PATHS[input.category][i].id \in SelectablePaths(input.category)

\* C38: normalization preserves validity: if validateAnswer accepts a raw
\* answer then it also accepts parseUserAnswer of that raw answer, so the
\* answer recorded after validate-then-normalize satisfies the validation
\* rules of its question.
C38_NormalizedStaysValid ==
  (/\ output.checked /\ output.subject = input.raw /\ output.validation.valid
   /\ output.normalized) =>
    validateAnswer(input.question, output.answer).valid

\* C39: when an order chat is escalated, the ticket number written into the
\* message shown to the user, in place of the {timestamp} placeholder,
\* denotes the same ticket as the ticketNumber stored in the session and
\* returned in the response.
C39_MessageNamesTicket ==
  output.ticketNumber # Undefined =>
    /\ sessions[input.sessionId].ticketNumber = output.ticketNumber
    /\ Includes(output.message, "Ticket #" \o output.ticketNumber \o " has been created")

\* the greeting and the registered steps
OfferingSteps ==
  {generateInitialGreeting(body.customerName, body.productName, body.deliveryStatus, body.deliveryDate) :
     body \in OrderBodies}
  \cup {CHAT_STEPS[stepId] : stepId \in DOMAIN CHAT_STEPS}

\* C40: in every reachable state of an order-chat session, currentStep is
\* 'initial' or the id of a step registered in CHAT_STEPS, and the nextStep
\* of every option of the greeting and of every registered step is RESOLVE,
\* ESCALATE or the id of a registered step; so the responses 'Invalid
\* current step' and 'Invalid next step' never occur.
C40_StepsAreRegistered ==
  /\ \A sessionId \in DOMAIN sessions :
        sessions[sessionId].currentStep \in {"initial"} \cup DOMAIN CHAT_STEPS
  /\ \A step \in OfferingSteps : \A i \in 1..Len(step.options) :
        step.options[i].nextStep \in {"RESOLVE", "ESCALATE"} \cup DOMAIN CHAT_STEPS
  /\ output.error \notin {"Invalid current step", "Invalid next step"}

\* a session has been led to the exchange flow and escalated there
C40_Witness ==
  /\ input.route = "select-option"
  /\ input.sessionId \in DOMAIN sessions
  /\ sessions[input.sessionId].currentStep = "exchange_flow"
  /\ input.optionId = "different_size"
  /\ output.status = 200
  /\ output.ticketNumber # Undefined

====
